---- MODULE Spec2Model ----
(***************************************************************************)
(* Model of the xk6-somnia RPC/WS load-test driver.                        *)
(*                                                                         *)
(*   SpecRpc : jsonCall (original script and lib/rpc-client.js), with      *)
(*             detectTimeout, post and recordFailure.                      *)
(*   SpecWs  : wsSub (original script and lib websocket client).           *)
(*   SpecTx  : buildRawTx and the S11/S12 transaction-sending iterations   *)
(*             of several virtual users against one node.                  *)
(***************************************************************************)
EXTENDS Integers, Sequences, FiniteSets, TLC

VARIABLES
    \* ---- metrics (k6 Counter / Rate / Gauge objects) ----
    successCount,      \* somnia_success_count
    errorCount,        \* somnia_error_count
    retryCounter,      \* somnia_retry_count (the global Counter)
    timeoutCount,      \* somnia_timeout_count
    timeoutRateAdds,   \* number of timeoutRate.add(1, ...) calls
    activeConnections, \* somnia_active_ws_connections (sum of the adds)
    \* ---- jsonCall ----
    callsMade,         \* top-level jsonCall invocations started so far
    impl,              \* "orig" = somnia_rpc_perf.js, "lib" = lib/rpc-client.js
    method,            \* RPC method of the call in progress
    expectFn,          \* caller-supplied result validator
    pc,                \* "idle" | "posting" | "sleeping" | "returned" | "raised"
    retryAttempt,      \* the retryAttempt argument of the current recursion level
    attempts,          \* post() invocations of the call in progress
    allNet,            \* every attempt so far ended in a network error
    last,              \* digest of the latest attempt's transport outcome
    out,               \* what jsonCall did with the latest attempt
    ret,               \* value returned to the caller
    stage,             \* stage tag of the failure recorded for the call
    snap,              \* metric values when the call started
    blockHeight,       \* somnia_current_block_height: the value last set
    gauges,            \* record: somnia_current_gas_price and the adds to both gauges
    lastResp,              \* the transport outcome of the latest attempt
    validatorCalls,    \* times expectFn was invoked in the call in progress
    retryLog,          \* record: retry_attempt tags of the retry adds, sleeps ended
    \* ---- wsSub ----
    ws,                \* record: the subscription in progress
    wsSnap,            \* metric values when wsSub was called
    \* ---- transaction senders ----
    chainNonce,        \* node side: pending transaction count per address
    vu,                \* per virtual user: position in its iteration
    issued,            \* per address: nonces signed, in signing order
    txDone,            \* iterations completed (all users)
    scenario,          \* SCENARIO of the run: "S11_SendRawTxSmall" | "S12_SendRawTxERC20"
    su,                \* record: the run of setup()
    run,               \* record: the start-up of a k6 run and its iterations
    asg,               \* record: endpoint and wallet assignment of the workers
    inflight,          \* record: the clock and the request ids on the wire
    tally,             \* record: tagged counter series and the adds made to them
    failLog,           \* record: recordFailure calls, error-counter adds and console.error lines
    pair,              \* record: the two jsonCall implementations fed the same responses
    sg,                \* record: the last call of the signer and how it ended
    lock,              \* record: the orchestrator's lock directory and its instances
    logs,              \* record: one worker's S7_GetLogsSmall cursor and its last query
    td,                \* record: one run of teardown(data)
    bc                 \* record: the last iteration of scenario S19_BatchCalls

rpcVars == <<blockHeight, gauges, lastResp, validatorCalls, retryLog, callsMade, impl, method, expectFn, pc, retryAttempt, attempts,
             allNet, last, out, ret, stage, snap>>
metricVars == <<successCount, errorCount, retryCounter, timeoutCount,
                timeoutRateAdds, activeConnections>>
wsVars == <<ws, wsSnap>>
txVars == <<chainNonce, vu, issued, txDone, scenario, su, run, asg, inflight, tally, failLog, pair, sg, lock, logs, td, bc>>
vars == <<metricVars, rpcVars, wsVars, txVars>>

----------------------------------------------------------------------------
(* Bounds of the model *)
MaxCalls == 1
MaxSubs == 1
MaxMsgs == 2
MaxOptRetries == 2
NumVU == 3
NumWallets == 2
MaxTx == 3
MaxPool == 3
MaxBatch == 3
MaxBase == 2
MaxIters == 2
MaxUrls == 2
MaxPerRpcVu == 2
MaxAssign == 4
MaxClock == 1
MaxAdds == 2
MaxFailures == 2
MaxSignCalls == 1
NumInstances == 3
MaxLogIters == 3
MaxBatchCall == 5
MaxBatchIters == 1

(* Program constants *)
MAX_RETRIES == 3
PARSED_TIMEOUT_MS == 15000
LIB_REASONABLE_MS == 30000
WS_TIMEOUT == 60000
WS_DEFAULT_RETRIES == 2
CLOSE_NORMAL == 1000
BLOCK_HISTORY_DEPTH == 100
SUCCESS_THRESHOLD_PCT == 80

----------------------------------------------------------------------------
(* JavaScript values that flow through jsonCall.  Strings are sequences  *)
(* of characters.                                                         *)
Undefined == [t |-> "undefined", s |-> << >>]
JNull == [t |-> "null", s |-> << >>]
JStr(x) == [t |-> "str", s |-> x]
ErrData(c) == [t |-> "errorData", s |-> c]

Hex10 == <<"0", "x", "1", "0">>
RevertCode == <<"-", "3", "2", "0", "0", "0">>
Hex1f == <<"0", "x", "1", "f">>
HexNoDigits == <<"0", "x">>
Results == {JNull, JStr(Hex10), JStr(<< >>), JStr(Hex1f), JStr(HexNoDigits)}
Methods == {"eth_blockNumber", "eth_gasPrice", "eth_estimateGas", "eth_getLogs"}
ExpectFns == {"any", "hex0x"}
Impls == {"orig", "lib"}

\* the validators the scenarios pass: the default `_ => true` and
\* `result => typeof result === 'string' && result.startsWith('0x')`;
\* an absent result reaches the validator as undefined
ApplyExpect(f, hasResult, r) ==
    IF f = "any" THEN TRUE
    ELSE hasResult /\ r.t = "str" /\ Len(r.s) >= 2 /\ SubSeq(r.s, 1, 2) = <<"0", "x">>

\* JavaScript truthiness of a value
Truthy(v) == v.t \notin {"undefined", "null"} /\ ~(v.t = "str" /\ v.s = << >>)

\* Number(x) of JavaScript; a number is [nan |-> BOOLEAN, v |-> Nat]
NaN == [nan |-> TRUE, v |-> 0]
Num(n) == [nan |-> FALSE, v |-> n]

HexDigits == <<"0", "1", "2", "3", "4", "5", "6", "7", "8", "9",
               "a", "b", "c", "d", "e", "f">>

\* the value of one digit in the given radix, or -1
DigitValue(c, radix) ==
    IF \E k \in 1..radix : HexDigits[k] = c
    THEN (CHOOSE k \in 1..radix : HexDigits[k] = c) - 1
    ELSE -1

\* the value of a digit string in the given radix, or -1 if a character is
\* not a digit of that radix
RECURSIVE DigitsValue(_, _)
DigitsValue(s, radix) ==
    IF s = << >> THEN 0
    ELSE LET rest == DigitsValue(SubSeq(s, 1, Len(s) - 1), radix)
             d == DigitValue(s[Len(s)], radix)
         IN  IF rest < 0 \/ d < 0 THEN -1 ELSE rest * radix + d

\* mutant of NumberOf: the 0x prefix is not recognised
NumberOfDecimalOnly(x) ==
    IF x.t = "null" THEN Num(0)
    ELSE IF x.t # "str" THEN NaN
    ELSE IF DigitsValue(x.s, 10) >= 0 THEN Num(DigitsValue(x.s, 10))
    ELSE NaN

\* Number(null) is 0, Number(undefined) is NaN, Number("") is 0,
\* Number("0x10") is 16, Number("0x") is NaN
NumberOf(x) ==
    IF x.t = "null" THEN Num(0)
    ELSE IF x.t # "str" THEN NaN
    ELSE IF Len(x.s) >= 2 /\ SubSeq(x.s, 1, 2) = <<"0", "x">>
    THEN (IF Len(x.s) > 2 /\ DigitsValue(SubSeq(x.s, 3, Len(x.s)), 16) >= 0
          THEN Num(DigitsValue(SubSeq(x.s, 3, Len(x.s)), 16)) ELSE NaN)
    ELSE IF DigitsValue(x.s, 10) >= 0 THEN Num(DigitsValue(x.s, 10))
    ELSE NaN

----------------------------------------------------------------------------
(* What the transport can hand to one attempt.                            *)
(*   threw      http.post raised; hasMsg / msgTimeout describe e.message  *)
(*   elapsed    Date.now() - startTime when the attempt is classified     *)
(*   tdur       res.timings.duration                                      *)
(*   body.kind  "empty" | "text" (not JSON) | "null" | "scalar" | "object"*)
(*   body.tw    the body text contains timeout vocabulary                 *)
NoBody == [kind |-> "empty", tw |-> FALSE, jsonrpc |-> FALSE, idMatch |-> FALSE,
           hasResult |-> FALSE, result |-> JNull, hasError |-> FALSE]

Timings == { <<100, 100>>, <<13000, 100>>, <<13000, 13000>>,
             <<14250, 13000>>, <<15000, 15000>> }

Body(k, w, j, i, hr, r, he) ==
    [kind |-> k, tw |-> w, jsonrpc |-> j, idMatch |-> i, hasResult |-> hr,
     result |-> r, hasError |-> he]

\* envelopes: result only (each value), error only, both, neither
Payloads ==
    { <<TRUE, r, FALSE>> : r \in Results }
    \cup { <<FALSE, JNull, TRUE>>, <<TRUE, JStr(Hex10), TRUE>>, <<FALSE, JNull, FALSE>> }

ObjectBodies ==
    { Body("object", FALSE, TRUE, TRUE, p[1], p[2], p[3]) : p \in Payloads }
    \cup { Body("object", FALSE, FALSE, TRUE, TRUE, JStr(Hex10), FALSE),
           Body("object", FALSE, TRUE, FALSE, TRUE, JStr(Hex10), FALSE),
           Body("object", TRUE, TRUE, TRUE, TRUE, JStr(Hex10), FALSE),
           Body("object", TRUE, TRUE, TRUE, FALSE, JNull, TRUE) }

OtherBodies ==
    { NoBody,
      [NoBody EXCEPT !.kind = "text"],
      [NoBody EXCEPT !.kind = "text", !.tw = TRUE],
      [NoBody EXCEPT !.kind = "null"],
      [NoBody EXCEPT !.kind = "scalar"] }

Bodies == ObjectBodies \cup OtherBodies

Resp(th, m, mt, st, ec, c, b, tm) ==
    [threw |-> th, hasMsg |-> m, msgTimeout |-> mt, status |-> st, error_code |-> ec,
     ct |-> c, body |-> b, elapsed |-> tm[1], tdur |-> tm[2]]

\* http.post raised
Exceptions ==
    { Resp(TRUE, m, mt, 0, 0, FALSE, NoBody, tm) :
          m \in BOOLEAN, mt \in BOOLEAN, tm \in Timings }

\* k6 reports a transport failure as status 0 with a non-zero error_code
NetErrors ==
    { Resp(FALSE, FALSE, FALSE, 0, c, FALSE, NoBody, tm) :
          c \in {1050, 1212}, tm \in Timings }

\* HTTP responses: every body with status 200 and a JSON content type, and
\* the other statuses and content types with a few bodies
HttpResponses ==
    { Resp(FALSE, FALSE, FALSE, 200, 0, TRUE, b, tm) : b \in Bodies, tm \in Timings }
    \cup { Resp(FALSE, FALSE, FALSE, st, 0, c, b, tm) :
             st \in {404, 408, 504}, c \in BOOLEAN,
             b \in {NoBody, [NoBody EXCEPT !.kind = "text"],
                    Body("object", FALSE, TRUE, TRUE, TRUE, JStr(Hex10), FALSE)},
             tm \in {<<100, 100>>, <<15000, 15000>>} }
    \cup { Resp(FALSE, FALSE, FALSE, 200, 0, FALSE, b, <<100, 100>>) :
             b \in {[NoBody EXCEPT !.kind = "text"],
                    Body("object", FALSE, TRUE, TRUE, TRUE, JStr(Hex10), FALSE)} }

Responses ==
    { r \in Exceptions : r.msgTimeout => r.hasMsg } \cup NetErrors \cup HttpResponses

----------------------------------------------------------------------------
(* detectTimeout: the set of indicators that are true.  The response is   *)
(* passed by the fields the function reads.                               *)
AtLeast95(elapsed, timeoutMs) == elapsed * 100 >= timeoutMs * 95

\* mutant of DetectTimeout: the body_timeout indicator is left out
DetectTimeoutNoBody(error_code, status, bodyTw, elapsed, timeoutMs) ==
    { i \in {"error_code_timeout", "status_timeout", "duration_timeout",
             "gateway_timeout", "request_timeout", "no_response"} :
        \/ i = "error_code_timeout" /\ error_code = 1050
        \/ i = "status_timeout" /\ status = 0 /\ AtLeast95(elapsed, timeoutMs)
        \/ i = "duration_timeout" /\ AtLeast95(elapsed, timeoutMs)
        \/ i = "gateway_timeout" /\ status = 504
        \/ i = "request_timeout" /\ status = 408
        \/ i = "no_response" /\ status = 0 /\ AtLeast95(elapsed, timeoutMs) }

DetectTimeout(error_code, status, bodyTw, elapsed, timeoutMs) ==
    { i \in {"error_code_timeout", "status_timeout", "duration_timeout",
             "body_timeout", "gateway_timeout", "request_timeout", "no_response"} :
        \/ i = "error_code_timeout" /\ error_code = 1050
        \/ i = "status_timeout" /\ status = 0 /\ AtLeast95(elapsed, timeoutMs)
        \/ i = "duration_timeout" /\ AtLeast95(elapsed, timeoutMs)
        \/ i = "body_timeout" /\ bodyTw
        \/ i = "gateway_timeout" /\ status = 504
        \/ i = "request_timeout" /\ status = 408
        \/ i = "no_response" /\ status = 0 /\ AtLeast95(elapsed, timeoutMs) }

\* post(): the isTimeout flag attached to a rethrown transport exception
PostIsTimeout(resp) ==
    resp.hasMsg /\ (resp.msgTimeout \/ AtLeast95(resp.elapsed, PARSED_TIMEOUT_MS))

(* Metric deltas of one call of a recording function *)
Zero == [succ |-> 0, err |-> 0, retry |-> 0, tcount |-> 0, trate |-> 0]

\* recordFailure of somnia_rpc_perf.js.  flag = options.isTimeout,
\* hasResp = options.response && options.requestStartTime
RecordFailureOrig(flag, hasResp, error_code, status, bodyTw, elapsed, timeoutMs) ==
    LET detected == hasResp /\
                    DetectTimeout(error_code, status, bodyTw, elapsed, timeoutMs) # {}
        isTimeout == flag \/ detected
    IN  [Zero EXCEPT !.err = 1,
                     !.tcount = IF detected THEN 1 ELSE 0,
                     !.trate = IF isTimeout THEN 1 ELSE 0]

\* recordFailure of lib/metrics.js
RecordFailureLib(flag) ==
    [Zero EXCEPT !.err = 1, !.trate = IF flag THEN 1 ELSE 0]

RecordSuccess == [Zero EXCEPT !.succ = 1]

RetryAdd == [Zero EXCEPT !.retry = 1]

----------------------------------------------------------------------------
(* One recursion level of jsonCall: what it does with the transport's     *)
(* outcome.  kind: "retry" (sleep, then recurse), "fail" (recordFailure,  *)
(* returns undefined), "ok" (recordSuccess, returns a value), "throw"     *)
(* (an exception leaves jsonCall).                                        *)
\* tmo: the attempt was classified as a timeout (is_timeout / isTimeout)
Outcome(k, st, r, d, tmo) == [kind |-> k, stage |-> st, ret |-> r, d |-> d, tmo |-> tmo]

\* mutant of RetryOrFail: the retry test is off by one
RetryOrFailOffByOne(attempt, st, d, tmo) ==
    IF attempt <= MAX_RETRIES THEN Outcome("retry", "none", Undefined, RetryAdd, tmo)
    ELSE Outcome("fail", st, Undefined, d, tmo \/ d.trate > 0)

\* if (retryAttempt < MAX_RETRIES) { retryCount.add; sleep; return jsonCall(...) }
\* return recordFailure(...)
RetryOrFail(attempt, st, d, tmo) ==
    IF attempt < MAX_RETRIES THEN Outcome("retry", "none", Undefined, RetryAdd, tmo)
    ELSE Outcome("fail", st, Undefined, d, tmo \/ d.trate > 0)

StructureOk(b) ==
    b.kind = "object" /\ b.jsonrpc /\ b.idMatch /\ (b.hasResult \/ b.hasError)

ResultOk(f, b) ==
    (b.hasResult /\ b.result # JNull) /\ ApplyExpect(f, b.hasResult, b.result)

HttpOkOrig(r) ==
    r.status = 200 /\ r.ct /\ r.body.kind # "empty" /\ r.tdur * 10 < PARSED_TIMEOUT_MS * 8

HttpOkLib(r) ==
    r.status = 200 /\ r.ct /\ r.body.kind # "empty" /\ r.tdur < LIB_REASONABLE_MS

\* mutant of Validate: the result is validated before the protocol error is
\* looked at
ValidateResultFirst(i, m, f, r, rf) ==
    IF r.body.kind = "text" THEN Outcome("fail", "json_parse", Undefined, rf, rf.trate > 0)
    ELSE IF r.body.kind = "null" THEN Outcome("throw", "none", Undefined, Zero, FALSE)
    ELSE IF ~StructureOk(r.body) THEN Outcome("fail", "rpc_structure", Undefined, rf, rf.trate > 0)
    ELSE IF ~ResultOk(f, r.body) THEN Outcome("fail", "result_validation", Undefined, rf, rf.trate > 0)
    ELSE IF r.body.hasError THEN Outcome("fail", "rpc_error", Undefined, rf, rf.trate > 0)
    ELSE Outcome("ok", "none", r.body.result, RecordSuccess, FALSE)

\* after the HTTP checks: res.json(), structure, protocol error, result
Validate(i, m, f, r, rf) ==
    IF r.body.kind = "text" THEN Outcome("fail", "json_parse", Undefined, rf, rf.trate > 0)
    ELSE IF r.body.kind = "null" THEN Outcome("throw", "none", Undefined, Zero, FALSE)
    ELSE IF ~StructureOk(r.body) THEN Outcome("fail", "rpc_structure", Undefined, rf, rf.trate > 0)
    ELSE IF r.body.hasError THEN
        IF i = "orig" /\ m = "eth_estimateGas"
        THEN Outcome("ok", "rpc_error", ErrData(RevertCode), RecordSuccess, FALSE)
        ELSE Outcome("fail", "rpc_error", Undefined, rf, rf.trate > 0)
    ELSE IF ~ResultOk(f, r.body) THEN Outcome("fail", "result_validation", Undefined, rf, rf.trate > 0)
    ELSE Outcome("ok", "none", r.body.result, RecordSuccess, FALSE)

JsonCallOrig(m, f, attempt, r) ==
    LET rfr(flag) == RecordFailureOrig(flag, TRUE, r.error_code, r.status, r.body.tw,
                                       r.elapsed, PARSED_TIMEOUT_MS)
    IN
    IF r.threw THEN
        RetryOrFail(attempt, "none",
            RecordFailureOrig(PostIsTimeout(r), FALSE, r.error_code, r.status,
                              r.body.tw, r.elapsed, PARSED_TIMEOUT_MS),
            PostIsTimeout(r))
    ELSE IF DetectTimeout(r.error_code, r.status, r.body.tw, r.elapsed,
                          PARSED_TIMEOUT_MS) # {} THEN
        RetryOrFail(attempt, "none", rfr(TRUE), TRUE)
    ELSE IF r.error_code # 0 THEN
        RetryOrFail(attempt, "network", rfr(r.error_code \in {1050, 1051, 1052}),
                    r.error_code \in {1050, 1051, 1052})
    ELSE IF ~HttpOkOrig(r) THEN
        Outcome("fail", "http", Undefined, rfr(r.status \in {408, 504, 0}),
                r.status \in {408, 504, 0})
    ELSE Validate("orig", m, f, r, rfr(FALSE))

JsonCallLib(m, f, attempt, r) ==
    IF r.threw THEN RetryOrFail(attempt, "none", RecordFailureLib(FALSE), FALSE)
    ELSE IF r.error_code # 0 THEN
        RetryOrFail(attempt, "network", RecordFailureLib(FALSE), FALSE)
    ELSE IF ~HttpOkLib(r) THEN
        Outcome("fail", "http", Undefined, RecordFailureLib(FALSE), FALSE)
    ELSE Validate("lib", m, f, r, RecordFailureLib(FALSE))

JsonCall(i, m, f, attempt, r) ==
    IF i = "orig" THEN JsonCallOrig(m, f, attempt, r) ELSE JsonCallLib(m, f, attempt, r)

----------------------------------------------------------------------------
(* Digest of a transport outcome, in the vocabulary of the error taxonomy: *)
(* what an attempt IS, independently of what jsonCall does with it.        *)
TimeoutSignal(r) ==
    \/ r.status \in {408, 504}
    \/ AtLeast95(r.elapsed, PARSED_TIMEOUT_MS)
    \/ r.body.tw
    \/ r.error_code = 1050

EnvelopeOk(b) ==
    b.kind = "object" /\ b.jsonrpc /\ b.idMatch /\ (b.hasResult # b.hasError)

Category(f, r) ==
    IF r.threw THEN
        (IF AtLeast95(r.elapsed, PARSED_TIMEOUT_MS) THEN "Timeout" ELSE "Network")
    ELSE IF TimeoutSignal(r) THEN "Timeout"
    ELSE IF r.error_code # 0 THEN "Network"
    ELSE IF r.status # 200 \/ ~r.ct \/ r.body.kind = "empty" THEN "Http"
    ELSE IF ~EnvelopeOk(r.body) THEN "Malformed"
    ELSE IF r.body.hasError THEN "Protocol"
    ELSE IF r.body.result = JNull \/ ~ApplyExpect(f, TRUE, r.body.result) THEN "Validation"
    ELSE "Ok"

Digest(f, r) ==
    [cat |-> Category(f, r),
     threw |-> r.threw,
     hasMsg |-> r.hasMsg,
     net |-> r.threw \/ r.error_code # 0,
     late |-> AtLeast95(r.elapsed, PARSED_TIMEOUT_MS),
     slow |-> r.tdur * 10 >= PARSED_TIMEOUT_MS * 8,
     nullBody |-> r.body.kind = "null",
     result |-> IF r.body.kind = "object" /\ r.body.hasResult THEN r.body.result
                ELSE Undefined]

NoDigest ==
    [cat |-> "none", threw |-> FALSE, hasMsg |-> FALSE, net |-> FALSE, late |-> FALSE,
     slow |-> FALSE,
     nullBody |-> FALSE, result |-> Undefined]

NoOutcome == Outcome("none", "none", Undefined, Zero, FALSE)

Metrics ==
    [succ |-> successCount, err |-> errorCount, retry |-> retryCounter,
     tcount |-> timeoutCount, trate |-> timeoutRateAdds, gauge |-> activeConnections]

\* the gauge after a level that ended as o: a success of eth_blockNumber
\* with a truthy result sets it to Number(result)
StateMetric(m, o, cur) ==
    IF o.kind = "ok" /\ o.stage = "none" /\ m = "eth_blockNumber" /\ Truthy(o.ret)
    THEN NumberOf(o.ret) ELSE cur

\* no attempt answered yet
NoResp == Resp(FALSE, FALSE, FALSE, 0, 0, FALSE, NoBody, <<0, 0>>)

\* check(jsonResponse, resultChecks, baseTags) calls expectFn; the level
\* gets there when no earlier branch returned, and then ends as a success or
\* as a failure of stage result_validation
ValidatorInvoked(o) ==
    o.stage = "result_validation" \/ (o.kind = "ok" /\ o.stage = "none")

\* mutant of NextLevel: the recursion passes its own level on
NextLevelSame(attempt) == attempt

\* return jsonCall(url, method, params, extraTags, expectFn, retryAttempt + 1)
NextLevel(attempt) == attempt + 1

\* the retry adds of the call in progress and the sleeps that ended
NoRetryLog == [tags |-> << >>, sleeps |-> 0]

\* mutant of RetryTag: the add is tagged with the level it leads to
RetryTagNext(attempt) == attempt + 1

\* retryCount.add(1, {...baseTags, ...}): baseTags.retry_attempt is retryAttempt
RetryTag(attempt) == attempt

\* mutant of GasPriceMetric: the method is not looked at
GasPriceMetricAnyMethod(m, o, cur) ==
    IF o.kind = "ok" /\ o.stage = "none" /\ Truthy(o.ret)
    THEN NumberOf(o.ret) ELSE cur

\* if (method === 'eth_gasPrice' && jsonResponse.result) gasPrice.add(Number(...))
GasPriceMetric(m, o, cur) ==
    IF o.kind = "ok" /\ o.stage = "none" /\ m = "eth_gasPrice" /\ Truthy(o.ret)
    THEN NumberOf(o.ret) ELSE cur

\* number of add() calls a level that ended as o makes on the gauge of method gm
GaugeAdds(gm, m, o) ==
    IF o.kind = "ok" /\ o.stage = "none" /\ m = gm /\ Truthy(o.ret) THEN 1 ELSE 0

\* apply the deltas of one recording
Record(d) ==
    /\ successCount' = successCount + d.succ
    /\ errorCount' = errorCount + d.err
    /\ retryCounter' = retryCounter + d.retry
    /\ timeoutCount' = timeoutCount + d.tcount
    /\ timeoutRateAdds' = timeoutRateAdds + d.trate

----------------------------------------------------------------------------
(* jsonCall actions *)

\* a caller invokes jsonCall(url, method, params, tags, expectFn)
StartCall(i, m, f) ==
    /\ pc \in {"idle", "returned", "raised"}
    /\ callsMade < MaxCalls
    /\ callsMade' = callsMade + 1
    /\ impl' = i /\ method' = m /\ expectFn' = f
    /\ pc' = "posting"
    /\ retryAttempt' = 0 /\ attempts' = 0 /\ allNet' = TRUE
    /\ last' = NoDigest /\ out' = NoOutcome
    /\ ret' = Undefined /\ stage' = "none"
    /\ snap' = Metrics
    /\ retryLog' = NoRetryLog
    /\ lastResp' = NoResp /\ validatorCalls' = 0
    /\ gauges' = [gauges EXCEPT !.snap = [block |-> blockHeight, gasPrice |-> gauges.gasPrice,
                                          blockAdds |-> gauges.blockAdds,
                                          gasAdds |-> gauges.gasAdds]]
    /\ UNCHANGED <<blockHeight, metricVars, wsVars, txVars>>

\* one recursion level: post() returns or throws and the level classifies it
Attempt(r) ==
    /\ pc = "posting"
    /\ LET o == JsonCall(impl, method, expectFn, retryAttempt, r) IN
        /\ out' = o
        /\ Record(o.d)
        /\ pc' = CASE o.kind = "retry" -> "sleeping"
                   [] o.kind = "throw" -> "raised"
                   [] OTHER -> "returned"
        /\ ret' = o.ret
        /\ stage' = o.stage
        /\ blockHeight' = StateMetric(method, o, blockHeight)
        /\ validatorCalls' = validatorCalls + (IF ValidatorInvoked(o) THEN 1 ELSE 0)
        /\ gauges' = [gauges EXCEPT
                        !.gasPrice = GasPriceMetric(method, o, @),
                        !.blockAdds = @ + GaugeAdds("eth_blockNumber", method, o),
                        !.gasAdds = @ + GaugeAdds("eth_gasPrice", method, o)]
        /\ retryLog' = IF o.kind = "retry"
                       THEN [retryLog EXCEPT !.tags = Append(@, RetryTag(retryAttempt))]
                       ELSE retryLog
    /\ attempts' = attempts + 1
    /\ lastResp' = r
    /\ allNet' = (allNet /\ (r.threw \/ r.error_code # 0))
    /\ last' = Digest(expectFn, r)
    /\ UNCHANGED <<callsMade, impl, method, expectFn, retryAttempt, snap,
                   activeConnections, wsVars, txVars>>

\* sleep(RETRY_DELAY_MS / 1000) ends and jsonCall calls itself
RetryWake ==
    /\ pc = "sleeping"
    /\ retryAttempt' = NextLevel(retryAttempt)
    /\ retryLog' = [retryLog EXCEPT !.sleeps = @ + 1]
    /\ pc' = "posting"
    /\ UNCHANGED <<callsMade, impl, method, expectFn, attempts, allNet, last, out,
                   ret, stage, snap, blockHeight, gauges, lastResp, validatorCalls,
                   metricVars, wsVars, txVars>>

----------------------------------------------------------------------------
(* wsSub.  One subscription at a time; `ws` describes it.                   *)
(*   phase   "none"       no subscription running                           *)
(*           "connected"  the connect callback ran, handlers are registered *)
(*           "closing"    socket.close(code, reason) was called locally and *)
(*                        the close event is about to be delivered          *)
(*           "retrySleep" the error handler sleeps before reconnecting      *)
(*           "errored"    the error handler returned without reconnecting   *)
(*           "ended"      the close handler ran                             *)
(*           "raised"     a handler threw                                   *)
(*   t       index into WsTimes: Date.now() - startTime of this connection  *)
(*   conns   connections attempted by this wsSub call; msgs, msgFails,      *)
(*           errors, closes count the events of the current connection      *)
(*   connSnap  the metrics when the current connection was opened           *)
WsTimes == <<1000, 20000, 57000, 60000>>

WsElapsed(w) == WsTimes[w.t]

\* const maxRetries = options.maxRetries || 2
EffMaxRetries(present, opt) == IF present /\ opt # 0 THEN opt ELSE WS_DEFAULT_RETRIES

NoWs ==
    [impl |-> "orig", phase |-> "none", optPresent |-> FALSE, opt |-> 0,
     maxRetries |-> WS_DEFAULT_RETRIES, retryN |-> 0, conns |-> 0, subs |-> 0,
     isConnected |-> FALSE, timer |-> FALSE, subscribed |-> FALSE, t |-> 1,
     code |-> 0, reason |-> "none", timedOut |-> FALSE, gotEvent |-> FALSE,
     errors |-> 0, closes |-> 0, msgs |-> 0, msgFails |-> 0, connSnap |-> [succ |-> 0, err |-> 0, retry |-> 0,
     tcount |-> 0, trate |-> 0, gauge |-> 0]]

\* the body of the function passed to ws.connect, up to socket.send
Connected(w) ==
    [w EXCEPT !.phase = "connected", !.isConnected = TRUE, !.timer = TRUE,
              !.subscribed = FALSE, !.t = 1, !.conns = @ + 1, !.code = 0,
              !.reason = "none", !.timedOut = FALSE, !.gotEvent = FALSE,
              !.errors = 0, !.closes = 0, !.msgs = 0, !.msgFails = 0,
              !.connSnap = [Metrics EXCEPT !.gauge = activeConnections]]

\* wsSub(wsUrl, rpcUrl, method, params, options): attemptConnection()
WsSub(i, present, opt) ==
    /\ ws.phase \in {"none", "errored", "ended", "raised"}
    /\ ws.subs < MaxSubs
    /\ wsSnap' = Metrics
    /\ ws' = Connected([NoWs EXCEPT !.impl = i, !.optPresent = present, !.opt = opt,
                                    !.maxRetries = EffMaxRetries(present, opt),
                                    !.subs = ws.subs + 1])
    /\ activeConnections' = activeConnections + 1
    /\ UNCHANGED <<successCount, errorCount, retryCounter, timeoutCount,
                   timeoutRateAdds, rpcVars, txVars>>

\* time passes on the open connection
WsTick ==
    /\ ws.phase = "connected"
    /\ ws.t < Len(WsTimes)
    /\ ws' = [ws EXCEPT !.t = @ + 1]
    /\ UNCHANGED <<wsSnap, metricVars, rpcVars, txVars>>

\* recordFailure as the WebSocket handlers call it; hasTimeoutMs says whether
\* options.timeoutMs was passed (else PARSED_TIMEOUT_MS applies)
WsRecordFailure(w, flag, status, bodyTw, hasTimeoutMs) ==
    IF w.impl = "orig"
    THEN RecordFailureOrig(flag, TRUE, 0, status, bodyTw, WsElapsed(w),
                           IF hasTimeoutMs THEN WS_TIMEOUT ELSE PARSED_TIMEOUT_MS)
    ELSE RecordFailureLib(FALSE)

\* socket.on('message', ...)
WsMessage(m) ==
    /\ ws.phase = "connected"
    /\ ws.msgs < MaxMsgs
    /\ CASE m = "confirm" ->
              /\ ws' = [ws EXCEPT !.subscribed = TRUE, !.msgs = @ + 1]
              /\ Record(RecordSuccess)
         [] m = "confirmError" ->
              /\ \E c \in {CLOSE_NORMAL, 1001} :
                    ws' = [ws EXCEPT !.phase = "closing", !.code = c, !.reason = "none",
                                        !.msgs = @ + 1, !.msgFails = @ + 1]
              /\ Record(WsRecordFailure(ws, FALSE, 200, FALSE, FALSE))
         [] m = "event" ->
              /\ ws' = [ws EXCEPT !.phase = "closing", !.code = CLOSE_NORMAL,
                                  !.reason = "Data received", !.gotEvent = TRUE,
                                  !.msgs = @ + 1]
              /\ Record(RecordSuccess)
         [] m = "unparsable" ->
              /\ ws' = [ws EXCEPT !.msgs = @ + 1, !.msgFails = @ + 1]
              /\ Record(WsRecordFailure(ws, FALSE, 200, FALSE, FALSE))
         [] OTHER ->
              /\ ws' = [ws EXCEPT !.msgs = @ + 1]
              /\ Record(Zero)
    /\ UNCHANGED <<wsSnap, activeConnections, rpcVars, txVars>>

\* the connection timeout callback
WsTimeout ==
    /\ ws.phase = "connected"
    /\ ws.timer
    /\ WsElapsed(ws) >= WS_TIMEOUT
    /\ IF ws.isConnected
       THEN /\ ws' = [ws EXCEPT !.phase = "closing", !.timer = FALSE, !.timedOut = TRUE,
                                !.code = CLOSE_NORMAL,
                                !.reason = IF ws.impl = "orig" THEN "Connection timeout"
                                           ELSE "Timeout reached"]
            /\ Record(IF ws.impl = "orig"
                      THEN [Zero EXCEPT !.tcount = 1, !.trate = 1] ELSE Zero)
       ELSE /\ ws' = [ws EXCEPT !.timer = FALSE]
            /\ Record(Zero)
    /\ UNCHANGED <<wsSnap, activeConnections, rpcVars, txVars>>

\* what the close handler records
CloseRecord(w, code, reason) ==
    IF w.impl = "orig" THEN
        LET isTimeoutClose == AtLeast95(WsElapsed(w), WS_TIMEOUT)
                              \/ reason = "Connection timeout"
        IN  IF code = CLOSE_NORMAL /\ ~isTimeoutClose THEN RecordSuccess
            ELSE WsRecordFailure(w, isTimeoutClose, 0, reason = "Connection timeout", TRUE)
    ELSE IF code = CLOSE_NORMAL THEN RecordSuccess
    ELSE RecordFailureLib(FALSE)

\* socket.on('close', ...): after a local socket.close, a close by the peer,
\* or the close that follows a transport error
WsClose(code) ==
    /\ \/ ws.phase = "closing" /\ code = ws.code
       \/ ws.phase = "connected"
       \/ ws.phase = "errored"
    /\ LET reason == IF ws.phase = "closing" THEN ws.reason ELSE "none" IN
        /\ Record(CloseRecord(ws, code, reason))
        /\ ws' = [ws EXCEPT !.phase = "ended", !.isConnected = FALSE,
                            !.timer = IF ws.impl = "orig" THEN FALSE ELSE @,
                            !.code = code, !.reason = reason, !.closes = @ + 1]
    /\ activeConnections' = activeConnections - 1
    /\ UNCHANGED <<wsSnap, rpcVars, txVars>>

\* socket.on('error', ...) up to the retry decision.  In somnia_rpc_perf.js
\* the local `let retryCount` shadows the Counter, so `retryCount.add` is a
\* call of undefined on a number and raises.
WsError(msgTimeout) ==
    /\ ws.phase = "connected"
    /\ Record([WsRecordFailure(ws, AtLeast95(WsElapsed(ws), WS_TIMEOUT) \/ msgTimeout,
                               0, msgTimeout, TRUE)
               EXCEPT !.retry = IF ws.impl = "lib" /\ ws.retryN < ws.maxRetries
                                THEN 1 ELSE 0])
    /\ ws' = [ws EXCEPT !.isConnected = FALSE,
                        !.timer = IF ws.impl = "orig" THEN FALSE ELSE @,
                        !.errors = @ + 1,
                        !.retryN = IF ws.retryN < ws.maxRetries THEN @ + 1 ELSE @,
                        !.phase = IF ws.retryN < ws.maxRetries
                                  THEN (IF ws.impl = "orig" THEN "raised" ELSE "retrySleep")
                                  ELSE "errored"]
    /\ activeConnections' = activeConnections - 1
    /\ UNCHANGED <<wsSnap, rpcVars, txVars>>

\* the error handler's sleep ends: attemptConnection()
WsReconnect ==
    /\ ws.phase = "retrySleep"
    /\ ws' = Connected(ws)
    /\ activeConnections' = activeConnections + 1
    /\ UNCHANGED <<wsSnap, successCount, errorCount, retryCounter, timeoutCount,
                   timeoutRateAdds, rpcVars, txVars>>

----------------------------------------------------------------------------
(* Transaction-sending iterations (S11_SendRawTxSmall, S12_SendRawTxERC20). *)
(* Virtual users 1..NumVU run main_scenario concurrently against one node;  *)
(* chainNonce is the node's answer to eth_getTransactionCount(addr,         *)
(* 'pending').  Addresses 0..NumWallets-1 are the generated wallets and     *)
(* address NumWallets stands for BASE_ADDR.                                 *)
VUs == 1..NumVU
Wallets == 0..(NumWallets - 1)
BaseAddr == NumWallets
Addresses == Wallets \cup {BaseAddr}

\* const walletIndex = (__VU - 1) % data.wallets.length
WalletIndex(v) == (v - 1) % NumWallets

\* the wallet buildRawTx signs with
Sender(sc, v) == IF sc = "S12_SendRawTxERC20" THEN BaseAddr ELSE WalletIndex(v)

IdleVU == [pc |-> "idle", nonce |-> 0, nan |-> FALSE, raw |-> FALSE]

\* buildRawTx: Number(jsonCall(url, 'eth_getTransactionCount', [addr, 'pending']));
\* a failed call returns undefined and Number(undefined) is NaN
FetchNonce(v, ok) ==
    /\ vu[v].pc = "idle"
    /\ txDone < MaxTx
    /\ vu' = [vu EXCEPT ![v] = [pc |-> "gotNonce",
                                nonce |-> IF ok THEN chainNonce[Sender(scenario, v)] ELSE 0,
                                nan |-> ~ok, raw |-> FALSE]]
    /\ UNCHANGED <<chainNonce, issued, txDone, scenario, su, run, asg, inflight, tally, failLog, pair, sg, lock, logs, td, bc, metricVars, rpcVars, wsVars>>

\* mutant of AfterSign: the exception of the signer is swallowed
AfterSignSwallowed(u, signed) == [u EXCEPT !.pc = "signed", !.raw = signed]

\* try { return ethgo.signLegacyTx(txParams, wallet.pk) } catch (e) { ...; throw e }
\* the worker holds the raw transaction, or the exception ends its iteration
AfterSign(u, signed) == IF signed THEN [u EXCEPT !.pc = "signed", !.raw = TRUE] ELSE IdleVU

\* buildRawTx: the eth_gasPrice call returns and ethgo.signLegacyTx signs
\* txParams or raises
SignTx(v, signed) ==
    /\ vu[v].pc = "gotNonce"
    /\ issued' = IF signed
                 THEN [issued EXCEPT ![Sender(scenario, v)] =
                          Append(@, [nonce |-> vu[v].nonce, nan |-> vu[v].nan, by |-> v])]
                 ELSE issued
    /\ vu' = [vu EXCEPT ![v] = AfterSign(@, signed)]
    /\ txDone' = IF signed THEN txDone ELSE txDone + 1
    /\ UNCHANGED <<chainNonce, scenario, su, run, asg, inflight, tally, failLog, pair, sg, lock, logs, td, bc, metricVars, rpcVars, wsVars>>

\* jsonCall(rpcUrl, 'eth_sendRawTransaction', [raw]): the node takes the
\* transaction when its nonce is the next one of the sender, else rejects it;
\* the call may also fail before reaching the node
SubmitTx(v, delivered) ==
    /\ vu[v].pc = "signed"
    /\ LET a == Sender(scenario, v) IN
        chainNonce' = IF delivered /\ ~vu[v].nan /\ vu[v].nonce = chainNonce[a]
                      THEN [chainNonce EXCEPT ![a] = @ + 1]
                      ELSE chainNonce
    /\ vu' = [vu EXCEPT ![v] = IdleVU]
    /\ txDone' = txDone + 1
    /\ UNCHANGED <<issued, scenario, su, run, asg, inflight, tally, failLog, pair, sg, lock, logs, td, bc, metricVars, rpcVars, wsVars>>

----------------------------------------------------------------------------
(* setup(): funding of the generated wallets from the base wallet, then,    *)
(* for S12_SendRawTxERC20, the token distribution.  su holds the locals:    *)
(*   W, B      wallets.length and BATCH_SIZE                                *)
(*   baseNonce, nan   the local baseNonce (nan: it is NaN)                  *)
(*   i, batchIndex    the loop variables of the batch in progress           *)
(*   fundTx, tokenTx  the transactions signed so far, in signing order      *)
(*   funded, airdropped  wallets whose fundingTx / tokenAirdropTx is set    *)
NoSetup ==
    [phase |-> "none", W |-> 0, B |-> 1, base0 |-> 0, baseNonce |-> 0, nan |-> FALSE,
     i |-> 0, batchIndex |-> 0, fundTx |-> << >>, tokenTx |-> << >>,
     funded |-> {}, airdropped |-> {}]

\* const nonce = baseNonce + i + batchIndex
BatchNonceNoOffset(baseNonce, i, batchIndex) == baseNonce + batchIndex

BatchNonce(baseNonce, i, batchIndex) == baseNonce + i + batchIndex

\* wallets.slice(i, i + BATCH_SIZE).length
BatchLen(W, B, i) == IF i + B <= W THEN B ELSE W - i

\* the loop variables after one forEach callback: next wallet of the batch,
\* or i += BATCH_SIZE and the next batch
Advance(u) ==
    IF u.batchIndex + 1 < BatchLen(u.W, u.B, u.i)
    THEN [u EXCEPT !.batchIndex = @ + 1]
    ELSE [u EXCEPT !.i = @ + u.B, !.batchIndex = 0]

\* setup() up to the first batch: generate the wallets, read the base nonce
SetupStart(W, B, b, ok) ==
    /\ su.phase = "none"
    /\ su' = [NoSetup EXCEPT !.phase = "funding", !.W = W, !.B = B,
                             !.base0 = b, !.baseNonce = IF ok THEN b ELSE 0,
                             !.nan = ~ok]
    /\ UNCHANGED <<chainNonce, vu, issued, txDone, scenario, run, asg, inflight, tally, failLog, pair, sg, lock, logs, td, bc, metricVars, rpcVars, wsVars>>

\* one callback of the funding forEach: sign, submit, keep the hash if any;
\* after the last wallet: baseNonce += wallets.length
FundWallet(ok) ==
    /\ su.phase = "funding"
    /\ LET w == su.i + su.batchIndex
           u == Advance([su EXCEPT
                    !.fundTx = Append(@, [nonce |-> BatchNonce(su.baseNonce, su.i, su.batchIndex),
                                          nan |-> su.nan, wallet |-> w]),
                    !.funded = IF ok THEN @ \cup {w} ELSE @])
       IN  su' = IF u.i < u.W THEN u
                 ELSE [u EXCEPT !.baseNonce = @ + u.W, !.i = 0,
                                !.phase = IF scenario = "S12_SendRawTxERC20"
                                          THEN "tokens" ELSE "done"]
    /\ UNCHANGED <<chainNonce, vu, issued, txDone, scenario, run, asg, inflight, tally, failLog, pair, sg, lock, logs, td, bc, metricVars, rpcVars, wsVars>>

\* one callback of the token distribution forEach
TokenWallet(ok) ==
    /\ su.phase = "tokens"
    /\ LET w == su.i + su.batchIndex
           u == Advance([su EXCEPT
                    !.tokenTx = Append(@, [nonce |-> BatchNonce(su.baseNonce, su.i, su.batchIndex),
                                           nan |-> su.nan, wallet |-> w]),
                    !.airdropped = IF ok THEN @ \cup {w} ELSE @])
       IN  su' = IF u.i < u.W THEN u ELSE [u EXCEPT !.phase = "done"]
    /\ UNCHANGED <<chainNonce, vu, issued, txDone, scenario, run, asg, inflight, tally, failLog, pair, sg, lock, logs, td, bc, metricVars, rpcVars, wsVars>>

----------------------------------------------------------------------------
(* Start-up of a run: k6 evaluates the script (init stage), calls setup(),  *)
(* then starts the workers, which call main_scenario once per iteration.    *)
(* An exception in the init stage or in setup() aborts the run; an          *)
(* exception in an iteration ends that iteration only.  run holds the       *)
(* environment of the run: SCENARIO_TYPE and whether PRIVATE_KEY,           *)
(* WALLET_ADDRESS, ERC20_TOKEN and TX_HASH are set.                         *)
RunScenarios ==
    {"S1_BlockNumber", "S9_GetBlockLight", "S11_SendRawTxSmall", "S12_SendRawTxERC20",
     "S18_GetTxReceipt"}

WRITE_SCENARIOS == {"S11_SendRawTxSmall", "S12_SendRawTxERC20"}

NoRun ==
    [phase |-> "none", scenario |-> "S1_BlockNumber", key |-> FALSE, addr |-> FALSE,
     erc20 |-> FALSE, txHash |-> FALSE, iters |-> 0, threw |-> 0,
     ops |-> << >>, stopped |-> FALSE]

\* the jsonCall invocations one iteration of a scenario makes, in order
\* (S9_GetBlockLight without TARGET_BLOCK; S11 and S12 through buildRawTx)
Plan(sc) ==
    CASE sc = "S1_BlockNumber" -> <<"eth_blockNumber">>
      [] sc = "S9_GetBlockLight" -> <<"eth_blockNumber", "eth_getBlockByNumber">>
      [] sc \in {"S11_SendRawTxSmall", "S12_SendRawTxERC20"} ->
            <<"eth_getTransactionCount", "eth_gasPrice", "eth_sendRawTransaction">>
      [] sc = "S18_GetTxReceipt" -> <<"eth_getTransactionReceipt">>

\* main_scenario throws before its first call
IterationThrows(r) == r.scenario = "S18_GetTxReceipt" /\ ~r.txHash

\* the module-level validation: TRUE when it throws
InitThrows(r) ==
    /\ r.scenario \in WRITE_SCENARIOS
    /\ \/ ~r.key \/ ~r.addr
       \/ r.scenario = "S12_SendRawTxERC20" /\ ~r.erc20

\* k6 evaluates the script
LoadScript(sc, key, addr, erc20, txHash) ==
    /\ run.phase = "none"
    /\ LET r == [NoRun EXCEPT !.scenario = sc, !.key = key, !.addr = addr,
                             !.erc20 = erc20, !.txHash = txHash]
       IN  run' = [r EXCEPT !.phase = IF InitThrows(r) THEN "aborted" ELSE "loaded"]
    /\ UNCHANGED <<chainNonce, vu, issued, txDone, scenario, su, asg, inflight, tally, failLog, pair, sg, lock, logs, td, bc, metricVars, rpcVars, wsVars>>

\* setup() returns (RPC_URLS is not empty) and the workers start
RunSetup ==
    /\ run.phase = "loaded"
    /\ run' = [run EXCEPT !.phase = "running"]
    /\ UNCHANGED <<chainNonce, vu, issued, txDone, scenario, su, asg, inflight, tally, failLog, pair, sg, lock, logs, td, bc, metricVars, rpcVars, wsVars>>

\* a worker begins an iteration: main_scenario(data) is entered
StartIteration ==
    /\ run.phase = "running"
    /\ run.iters < MaxIters
    /\ run' = [run EXCEPT !.phase = "iterating", !.iters = @ + 1,
                          !.ops = << >>, !.stopped = FALSE]
    /\ UNCHANGED <<chainNonce, vu, issued, txDone, scenario, su, asg, inflight, tally, failLog, pair, sg, lock, logs, td, bc, metricVars, rpcVars, wsVars>>

\* the next jsonCall of the iteration returns, with a value (ok) or with
\* undefined after a recorded failure; S9 returns null when its
\* eth_blockNumber call gave nothing, buildRawTx goes on in either case
IssueCall(ok) ==
    /\ run.phase = "iterating"
    /\ ~IterationThrows(run) /\ ~run.stopped
    /\ Len(run.ops) < Len(Plan(run.scenario))
    /\ run' = [run EXCEPT !.ops = Append(@, Plan(run.scenario)[Len(run.ops) + 1]),
                          !.stopped = (~ok /\ run.scenario = "S9_GetBlockLight"
                                       /\ Len(run.ops) = 0)]
    /\ UNCHANGED <<chainNonce, vu, issued, txDone, scenario, su, asg, inflight, tally, failLog, pair, sg, lock, logs, td, bc, metricVars, rpcVars, wsVars>>

\* the iteration ends: main_scenario returns, or case 'S18_GetTxReceipt'
\* throws without TX_HASH
EndIteration ==
    /\ run.phase = "iterating"
    /\ \/ IterationThrows(run) \/ run.stopped
       \/ Len(run.ops) = Len(Plan(run.scenario))
    /\ run' = [run EXCEPT !.phase = "running",
                          !.threw = IF IterationThrows(run) THEN @ + 1 ELSE @]
    /\ UNCHANGED <<chainNonce, vu, issued, txDone, scenario, su, asg, inflight, tally, failLog, pair, sg, lock, logs, td, bc, metricVars, rpcVars, wsVars>>

----------------------------------------------------------------------------
(* Endpoint and wallet assignment at the start of main_scenario.  The file  *)
(* holds two dispatchers: the original one (first part of the file), whose  *)
(* setup generates VU_COUNT wallets, and the enhanced one, whose setup      *)
(* generates the wallet pool modelled above.  k6 numbers the workers        *)
(* 1, 2, ...; the arrival-rate profiles preallocate more workers than       *)
(* VU_COUNT.  asg.first[v] holds the indexes of worker v's first iteration  *)
(* (url = -1: none yet), asg.v / url / wallet those of the latest one.      *)
Scripts == {"original", "enhanced"}

NoAssign ==
    [script |-> "enhanced", urls |-> 1, wallets |-> 1, n |-> 0, v |-> 0,
     url |-> 0, wallet |-> 0, first |-> [w \in VUs |-> [url |-> -1, wallet |-> -1]]]

\* const VU_COUNT = Math.max(1, RPC_URLS.length * PER_RPC_VU)
VU_COUNT(urls, perRpcVu) == IF urls * perRpcVu >= 1 THEN urls * perRpcVu ELSE 1

\* const endpointIndex = (__VU - 1) % RPC_URLS.length
EndpointIndex(v, urls) == (v - 1) % urls

\* original dispatcher: const wallet = data.wallets[__VU - 1]
WalletIndexOriginal(v) == v - 1

\* the run starts: RPC_URLS is read and setup() generates the wallets
AssignStart(sc, urls, perRpcVu) ==
    /\ asg.n = 0 /\ asg.v = 0
    /\ asg' = [NoAssign EXCEPT !.script = sc, !.urls = urls, !.n = 1,
                               !.wallets = IF sc = "original" THEN VU_COUNT(urls, perRpcVu)
                                           ELSE NumWallets]
    /\ UNCHANGED <<chainNonce, vu, issued, txDone, scenario, su, run, inflight, tally, failLog, pair, sg, lock, logs, td, bc, metricVars, rpcVars, wsVars>>

\* worker v enters main_scenario and picks its endpoint and its wallet
AssignWorker(v) ==
    /\ asg.n >= 1 /\ asg.n <= MaxAssign
    /\ LET e == EndpointIndex(v, asg.urls)
           w == IF asg.script = "original" THEN WalletIndexOriginal(v) ELSE WalletIndex(v)
       IN  asg' = [asg EXCEPT !.n = @ + 1, !.v = v, !.url = e, !.wallet = w,
                              !.first[v] = IF @.url = -1 THEN [url |-> e, wallet |-> w]
                                           ELSE @]
    /\ UNCHANGED <<chainNonce, vu, issued, txDone, scenario, su, run, inflight, tally, failLog, pair, sg, lock, logs, td, bc, metricVars, rpcVars, wsVars>>

----------------------------------------------------------------------------
(* Request ids of jsonCall (somnia_rpc_perf.js).  Every recursion level     *)
(* draws a fresh id from the wall clock and Math.random(); the workers run  *)
(* concurrently, each with at most one HTTP request on the wire.            *)
RANDOM_SCALE == 1000

\* values of Math.floor(Math.random() * 1000) fed to the model
RandomDraws == {0, 1, 999}

Digits == <<"0", "1", "2", "3", "4", "5", "6", "7", "8", "9">>

\* String(n) of a non-negative integer: its decimal digits
RECURSIVE DecimalString(_)
DecimalString(n) ==
    IF n < 10 THEN <<Digits[n + 1]>>
    ELSE Append(DecimalString(n \div 10), Digits[(n % 10) + 1])

\* String(Math.floor(Date.now() * 1000 + Math.random() * 1000)), with
\* rnd = Math.floor(Math.random() * 1000) (Date.now() * 1000 is an integer)
ReqId(now, rnd) == DecimalString(now * RANDOM_SCALE + rnd)

NoId == << >>

NoInflight == [now |-> 0, id |-> [v \in VUs |-> NoId]]

\* a millisecond passes
ClockTick ==
    /\ inflight.now < MaxClock
    /\ inflight' = [inflight EXCEPT !.now = @ + 1]
    /\ UNCHANGED <<chainNonce, vu, issued, txDone, scenario, su, run, asg, tally, failLog, pair, sg, lock, logs, td, bc, metricVars, rpcVars, wsVars>>

\* worker v enters a level of jsonCall (first attempt or retry) and posts
SendRequest(v, rnd) ==
    /\ inflight.id[v] = NoId
    /\ inflight' = [inflight EXCEPT !.id[v] = ReqId(inflight.now, rnd)]
    /\ UNCHANGED <<chainNonce, vu, issued, txDone, scenario, su, run, asg, tally, failLog, pair, sg, lock, logs, td, bc, metricVars, rpcVars, wsVars>>

\* http.post returns in worker v
ReceiveResponse(v) ==
    /\ inflight.id[v] # NoId
    /\ inflight' = [inflight EXCEPT !.id[v] = NoId]
    /\ UNCHANGED <<chainNonce, vu, issued, txDone, scenario, su, run, asg, tally, failLog, pair, sg, lock, logs, td, bc, metricVars, rpcVars, wsVars>>

----------------------------------------------------------------------------
(* recordSuccess called by concurrent workers.  A Counter keeps one series  *)
(* per tag set; tally.adds[v][t] counts the calls worker v made with tags   *)
(* t.                                                                       *)
TagSets == {[method |-> "eth_blockNumber"], [method |-> "eth_chainId"], [method |-> ""]}

NoTally ==
    [success |-> [t \in TagSets |-> 0], methodSuccess |-> [t \in TagSets |-> 0],
     adds |-> [v \in VUs |-> [t \in TagSets |-> 0]]]

\* mutant of CounterAdd: the sample replaces the series value
CounterAddOverwrite(series, value, tags) == [series EXCEPT ![tags] = value]

\* counter.add(value, tags)
CounterAdd(series, value, tags) == [series EXCEPT ![tags] = @ + value]

RECURSIVE SumOver(_, _)
SumOver(f, S) ==
    IF S = {} THEN 0
    ELSE LET x == CHOOSE y \in S : TRUE IN f[x] + SumOver(f, S \ {x})

AddsOf(v) == SumOver(tally.adds[v], TagSets)

\* recordSuccess(tags) in worker v
WorkerRecordSuccess(v, tags) ==
    /\ AddsOf(v) < MaxAdds
    /\ tally' = [success |-> CounterAdd(tally.success, 1, tags),
                 methodSuccess |-> IF tags.method # "" THEN CounterAdd(tally.methodSuccess, 1, tags)
                                   ELSE tally.methodSuccess,
                 adds |-> [tally.adds EXCEPT ![v][tags] = @ + 1]]
    /\ UNCHANGED <<chainNonce, vu, issued, txDone, scenario, su, run, asg, inflight, failLog, pair, sg, lock, logs, td, bc, metricVars, rpcVars, wsVars>>

----------------------------------------------------------------------------
(* recordFailure as a whole: the error counter and the console.error line.  *)
(* failLog.env is __ENV.K6_LOG_OUTPUT ("" when unset), failLog.log the      *)
(* lines written so far.                                                    *)
REASON_LIMIT == 100

LogOutputs == {"", "none", "json"}

\* reason.slice(0, 100)
Slice100(reason) ==
    SubSeq(reason, 1, IF Len(reason) < REASON_LIMIT THEN Len(reason) ELSE REASON_LIMIT)

ShortReason == <<"H", "T", "T", "P", " ", "5", "0", "0">>
LongReason == [i \in 1..(REASON_LIMIT + 1) |-> "x"]
Reasons == {ShortReason, LongReason}

\* tags of the callers: with a stage (network, http, ...) or, for the
\* exception and timeout branches of jsonCall, without one ("")
FailureTags ==
    [scenario : {"S1_BlockNumber"}, method : {"eth_blockNumber"},
     endpoint : {"url0"}, stage : {"", "network"}]

NoFailLog == [started |-> FALSE, env |-> "", impl |-> "orig", calls |-> 0, errors |-> 0, log |-> << >>]

\* the script is loaded with its environment
LogConfigure(i, env) ==
    /\ ~failLog.started
    /\ failLog' = [NoFailLog EXCEPT !.started = TRUE, !.env = env, !.impl = i]
    /\ UNCHANGED <<chainNonce, vu, issued, txDone, scenario, su, run, asg, inflight, tally, pair, sg, lock, logs, td, bc, metricVars, rpcVars, wsVars>>

\* the object handed to console.error(JSON.stringify(...))
LogEntry(tags, reason, isTimeout) ==
    [level |-> IF isTimeout THEN "WARN" ELSE "ERROR",
     scenario |-> tags.scenario, method |-> tags.method, endpoint |-> tags.endpoint,
     reason |-> reason,
     tags |-> [stage |-> tags.stage, reason |-> Slice100(reason)]]

\* recordFailure(tags, reason, {isTimeout: flag}) without a response object
RecordFailureCall(tags, reason, flag) ==
    /\ failLog.started /\ failLog.calls < MaxFailures
    /\ LET d == IF failLog.impl = "orig"
                THEN RecordFailureOrig(flag, FALSE, 0, 0, FALSE, 0, PARSED_TIMEOUT_MS)
                ELSE RecordFailureLib(flag)
           logged == failLog.impl = "lib" \/ failLog.env # "none"
           entry == LogEntry(tags, reason, failLog.impl = "orig" /\ flag)
       IN  failLog' = [failLog EXCEPT !.calls = @ + 1, !.errors = @ + d.err,
                                      !.log = IF logged THEN Append(@, entry) ELSE @]
    /\ UNCHANGED <<chainNonce, vu, issued, txDone, scenario, su, run, asg, inflight, tally, pair, sg, lock, logs, td, bc, metricVars, rpcVars, wsVars>>

----------------------------------------------------------------------------
(* The two jsonCall implementations side by side.  One caller's call is     *)
(* given to both with the same method and validator, and the transport      *)
(* answers the attempts of both with the same sequence of responses.        *)
(* Each side: pc "idle" | "posting" | "returned" | "raised", its recursion  *)
(* level, the attempts made, the value returned and the adds it made to the *)
(* success, error and retry counters.                                       *)
NoSide ==
    [pc |-> "idle", retryAttempt |-> 0, attempts |-> 0, ret |-> Undefined,
     succ |-> 0, err |-> 0, retry |-> 0]

NoPair == [method |-> "eth_blockNumber", expectFn |-> "any", orig |-> NoSide, lib |-> NoSide]

\* one recursion level of implementation i on response r
SideAttempt(i, m, f, side, r) ==
    IF side.pc # "posting" THEN side
    ELSE LET o == JsonCall(i, m, f, side.retryAttempt, r) IN
         [pc |-> CASE o.kind = "retry" -> "posting"
                   [] o.kind = "throw" -> "raised"
                   [] OTHER -> "returned",
          retryAttempt |-> IF o.kind = "retry" THEN NextLevel(side.retryAttempt)
                           ELSE side.retryAttempt,
          attempts |-> side.attempts + 1,
          ret |-> o.ret,
          succ |-> side.succ + o.d.succ,
          err |-> side.err + o.d.err,
          retry |-> side.retry + o.d.retry]

\* the caller invokes jsonCall(url, method, params, tags, expectFn)
PairStart(m, f) ==
    /\ pair.orig.pc = "idle"
    /\ pair' = [method |-> m, expectFn |-> f,
                orig |-> [NoSide EXCEPT !.pc = "posting"],
                lib |-> [NoSide EXCEPT !.pc = "posting"]]
    /\ UNCHANGED <<chainNonce, vu, issued, txDone, scenario, su, run, asg, inflight, tally, failLog, sg, lock, logs, td, bc, metricVars, rpcVars, wsVars>>

\* the transport answers the next attempt with r
PairAttempt(r) ==
    /\ pair.orig.pc = "posting" \/ pair.lib.pc = "posting"
    /\ pair' = [pair EXCEPT
                  !.orig = SideAttempt("orig", pair.method, pair.expectFn, @, r),
                  !.lib = SideAttempt("lib", pair.method, pair.expectFn, @, r)]
    /\ UNCHANGED <<chainNonce, vu, issued, txDone, scenario, su, run, asg, inflight, tally, failLog, sg, lock, logs, td, bc, metricVars, rpcVars, wsVars>>

----------------------------------------------------------------------------
(* The signer, Module.SignLegacyTx (Go).  A field of the JS object arrives  *)
(* as "absent", as a "number" (float64 or an integer type), or as a         *)
(* "string"; data is "absent", a "number", or a string of hex digits that   *)
(* decodes ("hex") or does not ("badhex"); the key is a string that is the  *)
(* hex of a 32-byte private key ("hex32") or not hex at all ("nothex").     *)
(* The call ends with a returned pair (raw, err) or with a Go panic.        *)
FieldKinds == {"absent", "number", "string"}
DataKinds == {"absent", "number", "hex", "badhex"}
KeyKinds == {"hex32", "nothex"}

TxInputs ==
    [nonce : FieldKinds, gas : {"absent", "number"}, to : FieldKinds,
     value : {"absent", "number"}, data : DataKinds, chainId : FieldKinds]

\* intFromIface panics on a value that is none of the numeric types
IntFromIfacePanics(kind) == kind = "string"

\* SignLegacyTx(tx, privKeyHex): end is "return" or "panic"; raw is "0x" for
\* "0x" + hex.EncodeToString(raw) and "" otherwise; input says what was
\* signed as the transaction's input: "data" (the bytes of tx.data), "empty"
\* (no data given), "prefix" (the bytes hex.DecodeString produced before it
\* met the undecodable character, its error dropped)
SignLegacyTx(tx, key) ==
    LET Panic == [end |-> "panic", raw |-> "", err |-> FALSE, input |-> "none"]
        Error == [end |-> "return", raw |-> "", err |-> TRUE, input |-> "none"]
    IN
    IF \E f \in {"nonce", "gas", "value", "chainId"} : IntFromIfacePanics(tx[f]) THEN Panic
    ELSE IF tx.to = "number" THEN Panic             \* v.(string)
    ELSE IF tx.data = "number" THEN Panic           \* v.(string)
    ELSE IF key = "nothex" THEN Error               \* hex.DecodeString(privKeyHex)
    ELSE IF tx.chainId = "absent" THEN Panic        \* t.ChainID.Uint64() on nil
    ELSE [end |-> "return", raw |-> "0x", err |-> FALSE,
          input |-> CASE tx.data = "hex" -> "data"
                      [] tx.data = "badhex" -> "prefix"
                      [] OTHER -> "empty"]

NoSign ==
    [calls |-> 0, key |-> "hex32", res |-> [end |-> "none", raw |-> "", err |-> FALSE, input |-> "none"],
     tx |-> [nonce |-> "absent", gas |-> "absent", to |-> "absent", value |-> "absent",
             data |-> "absent", chainId |-> "absent"]]

\* JS: ethgo.signLegacyTx(tx, privKeyHex)
SignerCall(tx, key) ==
    /\ sg.calls < MaxSignCalls
    /\ sg' = [calls |-> sg.calls + 1, key |-> key, tx |-> tx, res |-> SignLegacyTx(tx, key)]
    /\ UNCHANGED <<chainNonce, vu, issued, txDone, scenario, su, run, asg, inflight, tally, failLog, pair, lock, logs, td, bc, metricVars, rpcVars, wsVars>>

----------------------------------------------------------------------------
(* The orchestrator's run lock (acquire_lock, cleanup and the traps of the
   shell orchestrator).  lock.dir says whether the directory $LOCK_FILE
   exists, lock.pid is the content of $LOCK_FILE/pid (0: no such file), and
   lock.pc is the position of each instance of the script. *)
Instances == 1..NumInstances

NoLock == [dir |-> FALSE, pid |-> 0, pc |-> [p \in Instances |-> "start"]]

\* kill -0 "$lock_pid": the process of that pid still exists
Alive(p) == lock.pc[p] \notin {"exited", "killed"}

\* the instances between their successful mkdir and their own cleanup
Holders == {p \in Instances : lock.pc[p] \in {"pidwrite", "held"}}

\* cleanup(): removes the lock directory whenever it exists
Cleanup(p, l) ==
    IF l.dir THEN [l EXCEPT !.dir = FALSE, !.pid = 0, !.pc[p] = "exited"]
    ELSE [l EXCEPT !.pc[p] = "exited"]

\* one pass of the loop of acquire_lock(); timedOut: elapsed > lock_timeout,
\* which takes at least one earlier pass that slept
LockTry(p, timedOut) ==
    /\ lock.pc[p] \in {"start", "loop"}
    /\ lock' = IF ~lock.dir
               THEN [lock EXCEPT !.dir = TRUE, !.pid = 0, !.pc[p] = "pidwrite"]   \* mkdir succeeded
               ELSE IF timedOut /\ lock.pc[p] = "loop"
               THEN Cleanup(p, lock)                      \* return 1; main: exit 1; EXIT trap
               ELSE IF lock.pid # 0 /\ ~Alive(lock.pid)
               THEN [lock EXCEPT !.pc[p] = "stale"]       \* the holder's pid is dead
               ELSE [lock EXCEPT !.pc[p] = "loop"]        \* sleep 5
    /\ UNCHANGED <<chainNonce, vu, issued, txDone, scenario, su, run, asg, inflight, tally, failLog, pair, sg, logs, td, bc, metricVars, rpcVars, wsVars>>

\* echo $$ > "$LOCK_FILE/pid"; lock_acquired=1
LockWritePid(p) ==
    /\ lock.pc[p] = "pidwrite"
    /\ lock' = [lock EXCEPT !.pid = IF lock.dir THEN p ELSE 0, !.pc[p] = "held"]
    /\ UNCHANGED <<chainNonce, vu, issued, txDone, scenario, su, run, asg, inflight, tally, failLog, pair, sg, logs, td, bc, metricVars, rpcVars, wsVars>>

\* rm -rf "$LOCK_FILE"; continue
LockRemoveStale(p) ==
    /\ lock.pc[p] = "stale"
    /\ lock' = [lock EXCEPT !.dir = FALSE, !.pid = 0, !.pc[p] = "loop"]
    /\ UNCHANGED <<chainNonce, vu, issued, txDone, scenario, su, run, asg, inflight, tally, failLog, pair, sg, logs, td, bc, metricVars, rpcVars, wsVars>>

\* the script ends (main returns, or INT/TERM: exit 130): the EXIT trap runs cleanup
InstanceExit(p) ==
    /\ lock.pc[p] \in {"loop", "stale", "pidwrite", "held"}
    /\ lock' = Cleanup(p, lock)
    /\ UNCHANGED <<chainNonce, vu, issued, txDone, scenario, su, run, asg, inflight, tally, failLog, pair, sg, logs, td, bc, metricVars, rpcVars, wsVars>>

\* the holder is killed with a signal no trap catches: the lock stays behind
InstanceKill(p) ==
    /\ lock.pc[p] = "held"
    /\ lock' = [lock EXCEPT !.pc[p] = "killed"]
    /\ UNCHANGED <<chainNonce, vu, issued, txDone, scenario, su, run, asg, inflight, tally, failLog, pair, sg, logs, td, bc, metricVars, rpcVars, wsVars>>

----------------------------------------------------------------------------
(* Scenario S7_GetLogsSmall: the block cursor of one worker.  logs.cursor
   is currentLogBlock (set = FALSE: null), logs.q the eth_getLogs query of
   the last iteration and logs.prev the one before it. *)
\* __ENV.LOG_BLOCK_RANGE: unset, "0" or "2"
LogRangeEnvs == {Undefined, JStr(<<"0">>), JStr(<<"2">>)}

\* a + b of JavaScript numbers
Plus(a, b) == IF a.nan \/ b.nan THEN NaN ELSE Num(a.v + b.v)

\* a === b and a >= b of JavaScript numbers: false when either is NaN
NumEq(a, b) == ~a.nan /\ ~b.nan /\ a.v = b.v
NumGe(a, b) == ~a.nan /\ ~b.nan /\ a.v >= b.v

NoQuery == [made |-> FALSE, from |-> Num(0), to |-> Num(0), before |-> Num(0), after |-> Num(0)]

NoLogs == [on |-> FALSE, env |-> Undefined, set |-> FALSE, cursor |-> Num(0), iters |-> 0,
           fetches |-> 0, q |-> NoQuery, prev |-> NoQuery]

\* the worker starts with currentLogBlock = null
LogsStart(env) ==
    /\ ~logs.on
    /\ logs' = [NoLogs EXCEPT !.on = TRUE, !.env = env]
    /\ UNCHANGED <<chainNonce, vu, issued, txDone, scenario, su, run, asg, inflight, tally, failLog, pair, sg, lock, td, bc, metricVars, rpcVars, wsVars>>

\* the cursor the next iteration starts from
NextCursor(toBlock) == Plus(toBlock, Num(1))

\* one iteration of case 'S7_GetLogsSmall'; latestHex is what jsonCall
\* returns for eth_blockNumber if it is called, threw says that it raised
S7Iteration(latestHex, threw) ==
    /\ logs.on /\ logs.iters < MaxLogIters
    /\ LET fetch == ~logs.set
           start == IF fetch THEN Plus(NumberOf(latestHex), Num(0 - BLOCK_HISTORY_DEPTH))
                    ELSE logs.cursor
           range == NumberOf(IF Truthy(logs.env) THEN logs.env ELSE JStr(<<"1">>))
           fromBlock == start
           toBlock == Plus(start, range)
       IN  IF fetch /\ (threw \/ ~Truthy(latestHex))
           THEN logs' = [logs EXCEPT !.iters = @ + 1, !.fetches = @ + 1,
                                     !.q = NoQuery, !.prev = logs.q]
           ELSE logs' = [logs EXCEPT !.iters = @ + 1,
                                     !.fetches = IF fetch THEN @ + 1 ELSE @,
                                     !.set = TRUE, !.cursor = NextCursor(toBlock),
                                     !.q = [made |-> TRUE, from |-> fromBlock, to |-> toBlock,
                                            before |-> start, after |-> NextCursor(toBlock)],
                                     !.prev = logs.q]
    /\ UNCHANGED <<chainNonce, vu, issued, txDone, scenario, su, run, asg, inflight, tally, failLog, pair, sg, lock, td, bc, metricVars, rpcVars, wsVars>>

----------------------------------------------------------------------------
(* teardown(data): fund recovery.  td.i is the batch loop's index, td.j the
   position inside the batch; td.visited holds the wallets whose balance
   was queried, td.txs the wallets for which eth_sendRawTransaction was
   called.  Wallets are numbered from 0 as in data.wallets. *)
TeardownScenarios == {"S1_BlockNumber", "S11_SendRawTxSmall", "S12_SendRawTxERC20"}

\* Number(jsonCall(.. 'eth_gasPrice' ..)): a positive price, 0 (result ""),
\* NaN (the call failed and returned undefined), or the call raised
GasOutcomes == {"num", "zero", "nan", "raise"}

\* how the callback of batch.forEach ends for one wallet
WalletPaths ==
    {"balRaise", "balFalsy", "balBad", "low", "nonceRaise", "signThrow",
     "submitRaise", "submitFalsy", "refunded"}

NoTeardown ==
    [phase |-> "idle", scenario |-> "S1_BlockNumber", n |-> 0, B |-> 1, gas |-> "none",
     i |-> 0, j |-> 0, visited |-> {}, txs |-> {}, successfulRefunds |-> 0,
     failedRefunds |-> 0, outerCaught |-> FALSE]

\* teardown(data) up to the test of WRITE_SCENARIOS
TeardownStart(sc, W, B) ==
    /\ td.phase = "idle"
    /\ td' = [NoTeardown EXCEPT !.scenario = sc, !.n = W, !.B = B,
                                !.phase = IF sc \in WRITE_SCENARIOS THEN "gas" ELSE "done"]
    /\ UNCHANGED <<chainNonce, vu, issued, txDone, scenario, su, run, asg, inflight, tally, failLog, pair, sg, lock, logs, bc, metricVars, rpcVars, wsVars>>

\* the gas price of the refunds; an exception reaches the outer catch
TeardownGasPrice(g) ==
    /\ td.phase = "gas"
    /\ td' = IF g = "raise" THEN [td EXCEPT !.gas = g, !.outerCaught = TRUE, !.phase = "done"]
             ELSE [td EXCEPT !.gas = g, !.phase = IF td.n > 0 THEN "wallets" ELSE "done"]
    /\ UNCHANGED <<chainNonce, vu, issued, txDone, scenario, su, run, asg, inflight, tally, failLog, pair, sg, lock, logs, bc, metricVars, rpcVars, wsVars>>

\* the loops move on to the next wallet, the next batch, or end
NextWallet(t) ==
    IF t.j + 1 < t.B /\ t.i + t.j + 1 < t.n THEN [t EXCEPT !.j = @ + 1]
    ELSE IF t.i + t.B < t.n THEN [t EXCEPT !.i = @ + t.B, !.j = 0]
    ELSE [t EXCEPT !.phase = "done"]

\* an exception inside the callback: the wallet's own catch
WalletCatchOuter(t) == [t EXCEPT !.outerCaught = TRUE, !.phase = "done"]

WalletCatch(t) == NextWallet([t EXCEPT !.failedRefunds = @ + 1])

\* the callback of batch.forEach for wallet td.i + td.j
RefundWallet(path) ==
    /\ td.phase = "wallets"
    /\ LET k == td.i + td.j
           seen == [td EXCEPT !.visited = @ \cup {k}]
           \* BigInt(gasPrice) raises RangeError on NaN
           p == IF td.gas = "nan" /\ path \notin {"balRaise", "balFalsy", "balBad"}
                THEN "gasThrow" ELSE path
       IN  td' = CASE p \in {"balRaise", "balBad", "gasThrow", "nonceRaise", "signThrow"} ->
                        WalletCatch(seen)
                   [] p \in {"balFalsy", "low"} -> NextWallet(seen)
                   [] p = "submitRaise" -> WalletCatch([seen EXCEPT !.txs = @ \cup {k}])
                   [] p = "submitFalsy" -> NextWallet([seen EXCEPT !.txs = @ \cup {k}])
                   [] OTHER -> NextWallet([seen EXCEPT !.txs = @ \cup {k},
                                                    !.successfulRefunds = @ + 1])
    /\ UNCHANGED <<chainNonce, vu, issued, txDone, scenario, su, run, asg, inflight, tally, failLog, pair, sg, lock, logs, bc, metricVars, rpcVars, wsVars>>

----------------------------------------------------------------------------
(* Scenario S19_BatchCalls: one iteration.  A batch response is described
   by what the scenario looks at: whether post raised, the status, the time
   that passed, whether the body holds timeout vocabulary, whether the body
   parses, and for an array its length, the number of items that are valid
   (jsonrpc '2.0', id = index + 1, truthy result) and whether one of the
   other items is null. *)
BatchResponses ==
    [threw : BOOLEAN, status : {200, 500}, elapsed : {1000, 14500}, bodyTw : BOOLEAN,
     body : {"unparsable", "object", "array"}, len : 0..MaxBatchCall,
     valid : 0..MaxBatchCall, hasNull : BOOLEAN]

\* the responses that describe something: the counts are within the array,
\* a null item is one of the invalid ones, and a response that was never
\* received or holds no array has no further detail
WellFormedBatch(r) ==
    /\ r.valid <= r.len
    /\ r.hasNull => r.valid < r.len
    /\ r.body # "array" => (r.len = 0 /\ r.valid = 0)
    /\ r.threw => (r.status = 500 /\ r.body = "unparsable" /\ ~r.bodyTw)

\* successRate >= 0.8
RateReached(okItems, batchSize) ==
    100 * okItems >= SUCCESS_THRESHOLD_PCT * batchSize

\* what one iteration records: succ and fail are the adds to the success
\* and failure counters, raised says that the iteration ended in an exception
BatchOutcome(i, batchSize, r) ==
    LET Fail(st) == [succ |-> 0, fail |-> 1, raised |-> FALSE, stage |-> st]
    IN
    IF r.threw
    THEN (IF i = "orig" THEN Fail("none")
          ELSE [succ |-> 0, fail |-> 0, raised |-> TRUE, stage |-> "none"])
    ELSE IF i = "orig" /\ DetectTimeout(0, r.status, r.bodyTw, r.elapsed, PARSED_TIMEOUT_MS) # {}
    THEN Fail("none")
    ELSE IF r.status # 200 THEN Fail("http")
    ELSE IF r.body = "unparsable" THEN Fail("json_parse")
    ELSE IF r.body # "array" \/ r.len # batchSize THEN Fail("batch_validation")
    ELSE IF r.hasNull THEN [succ |-> 0, fail |-> 0, raised |-> TRUE, stage |-> "none"]
    ELSE IF RateReached(r.valid, batchSize)
    THEN [succ |-> 1, fail |-> 0, raised |-> FALSE, stage |-> "none"]
    ELSE Fail("none")

NoBatch ==
    [iters |-> 0, impl |-> "orig", size |-> 1,
     r |-> [threw |-> FALSE, status |-> 200, elapsed |-> 1000, bodyTw |-> FALSE,
            body |-> "unparsable", len |-> 0, valid |-> 0, hasNull |-> FALSE],
     out |-> [succ |-> 0, fail |-> 0, raised |-> FALSE, stage |-> "none"]]

\* one iteration of case 'S19_BatchCalls'
BatchIteration(i, batchSize, r) ==
    /\ bc.iters < MaxBatchIters
    /\ WellFormedBatch(r)
    /\ bc' = [iters |-> bc.iters + 1, impl |-> i, size |-> batchSize, r |-> r,
              out |-> BatchOutcome(i, batchSize, r)]
    /\ UNCHANGED <<chainNonce, vu, issued, txDone, scenario, su, run, asg, inflight, tally, failLog, pair, sg, lock, logs, td, metricVars, rpcVars, wsVars>>

----------------------------------------------------------------------------
(* Initial state and specifications *)
Init ==
    /\ successCount = 0 /\ errorCount = 0 /\ retryCounter = 0
    /\ blockHeight = Num(0)
    /\ lastResp = NoResp /\ validatorCalls = 0
    /\ gauges = [gasPrice |-> Num(0), blockAdds |-> 0, gasAdds |-> 0,
                 snap |-> [block |-> Num(0), gasPrice |-> Num(0), blockAdds |-> 0, gasAdds |-> 0]]
    /\ retryLog = NoRetryLog
    /\ timeoutCount = 0 /\ timeoutRateAdds = 0 /\ activeConnections = 0
    /\ callsMade = 0 /\ impl = "orig" /\ method = "eth_blockNumber"
    /\ expectFn = "any" /\ pc = "idle" /\ retryAttempt = 0 /\ attempts = 0
    /\ allNet = TRUE /\ last = NoDigest /\ out = NoOutcome
    /\ ret = Undefined /\ stage = "none"
    /\ snap = [succ |-> 0, err |-> 0, retry |-> 0, tcount |-> 0, trate |-> 0, gauge |-> 0]
    /\ ws = NoWs
    /\ wsSnap = [succ |-> 0, err |-> 0, retry |-> 0, tcount |-> 0, trate |-> 0, gauge |-> 0]
    /\ chainNonce = [a \in Addresses |-> 0]
    /\ vu = [v \in VUs |-> IdleVU]
    /\ issued = [a \in Addresses |-> << >>]
    /\ txDone = 0
    /\ scenario \in {"S11_SendRawTxSmall", "S12_SendRawTxERC20"}
    /\ su = NoSetup
    /\ run = NoRun
    /\ asg = NoAssign
    /\ inflight = NoInflight
    /\ tally = NoTally
    /\ failLog = NoFailLog
    /\ pair = NoPair
    /\ sg = NoSign
    /\ lock = NoLock
    /\ logs = NoLogs
    /\ td = NoTeardown
    /\ bc = NoBatch

NextRpc ==
    \/ \E i \in Impls, m \in Methods, f \in ExpectFns : StartCall(i, m, f)
    \/ \E r \in Responses : Attempt(r)
    \/ RetryWake

NextWs ==
    \/ \E i \in Impls, present \in BOOLEAN, opt \in 0..MaxOptRetries : WsSub(i, present, opt)
    \/ WsTick
    \/ \E m \in {"confirm", "confirmError", "event", "unparsable", "other"} : WsMessage(m)
    \/ WsTimeout
    \/ \E code \in {CLOSE_NORMAL, 1001, 1006} : WsClose(code)
    \/ \E mt \in BOOLEAN : WsError(mt)
    \/ WsReconnect

NextTx ==
    \/ \E v \in VUs, ok \in BOOLEAN : FetchNonce(v, ok)
    \/ \E v \in VUs, signed \in BOOLEAN : SignTx(v, signed)
    \/ \E v \in VUs, delivered \in BOOLEAN : SubmitTx(v, delivered)

NextSetup ==
    \/ \E W \in 1..MaxPool, B \in 1..MaxBatch, b \in 0..MaxBase, ok \in BOOLEAN :
          SetupStart(W, B, b, ok)
    \/ \E ok \in BOOLEAN : FundWallet(ok)
    \/ \E ok \in BOOLEAN : TokenWallet(ok)

NextRun ==
    \/ \E sc \in RunScenarios, key \in BOOLEAN, addr \in BOOLEAN, erc20 \in BOOLEAN,
          txHash \in BOOLEAN : LoadScript(sc, key, addr, erc20, txHash)
    \/ RunSetup
    \/ StartIteration
    \/ \E ok \in BOOLEAN : IssueCall(ok)
    \/ EndIteration

NextAssign ==
    \/ \E sc \in Scripts, urls \in 1..MaxUrls, perRpcVu \in 1..MaxPerRpcVu :
          AssignStart(sc, urls, perRpcVu)
    \/ \E v \in VUs : AssignWorker(v)

NextIds ==
    \/ ClockTick
    \/ \E v \in VUs, rnd \in RandomDraws : SendRequest(v, rnd)
    \/ \E v \in VUs : ReceiveResponse(v)

NextTally == \E v \in VUs, tags \in TagSets : WorkerRecordSuccess(v, tags)

NextLog ==
    \/ \E i \in Impls, env \in LogOutputs : LogConfigure(i, env)
    \/ \E tags \in FailureTags, reason \in Reasons, flag \in BOOLEAN :
          RecordFailureCall(tags, reason, flag)

NextPair ==
    \/ \E m \in Methods, f \in ExpectFns : PairStart(m, f)
    \/ \E r \in Responses : PairAttempt(r)

NextSign == \E tx \in TxInputs, key \in KeyKinds : SignerCall(tx, key)

NextLock ==
    \/ \E p \in Instances, timedOut \in BOOLEAN : LockTry(p, timedOut)
    \/ \E p \in Instances : LockWritePid(p)
    \/ \E p \in Instances : LockRemoveStale(p)
    \/ \E p \in Instances : InstanceExit(p)
    \/ \E p \in Instances : InstanceKill(p)

NextLogs ==
    \/ \E env \in LogRangeEnvs : LogsStart(env)
    \/ \E latestHex \in Results \cup {Undefined}, threw \in BOOLEAN : S7Iteration(latestHex, threw)

NextTeardown ==
    \/ \E sc \in TeardownScenarios, W \in 0..MaxPool, B \in 1..MaxBatch : TeardownStart(sc, W, B)
    \/ \E g \in GasOutcomes : TeardownGasPrice(g)
    \/ \E path \in WalletPaths : RefundWallet(path)

NextBatch ==
    \E i \in Impls, batchSize \in 1..MaxBatchCall, r \in BatchResponses :
        BatchIteration(i, batchSize, r)

Next ==
    \/ NextRpc \/ NextWs \/ NextTx \/ NextSetup \/ NextRun \/ NextAssign \/ NextIds \/ NextTally
    \/ NextLog \/ NextPair \/ NextSign \/ NextLock \/ NextLogs \/ NextTeardown
    \/ NextBatch

SpecRpc == Init /\ [][NextRpc]_vars
SpecWs == Init /\ [][NextWs]_vars
SpecTx == Init /\ [][NextTx]_vars
SpecSetup == Init /\ [][NextSetup]_vars
SpecRun == Init /\ [][NextRun]_vars
SpecAssign == Init /\ [][NextAssign]_vars
SpecIds == Init /\ [][NextIds]_vars
SpecTally == Init /\ [][NextTally]_vars
SpecLog == Init /\ [][NextLog]_vars
SpecPair == Init /\ [][NextPair]_vars
SpecSign == Init /\ [][NextSign]_vars
SpecLock == Init /\ [][NextLock]_vars
SpecLogs == Init /\ [][NextLogs]_vars
SpecTeardown == Init /\ [][NextTeardown]_vars
SpecBatch == Init /\ [][NextBatch]_vars
Spec == Init /\ [][Next]_vars

----------------------------------------------------------------------------
(* Properties of jsonCall (checked under SpecRpc) *)

CallOver == pc \in {"returned", "raised"}
Successes == successCount - snap.succ
Failures == errorCount - snap.err
Retries == retryCounter - snap.retry

\* C1: for every address, the nonces signed for its transactions by the
\* workers that obtained a nonce from the node increase by exactly one from
\* each transaction to the next: no repeat and no gap.
C1_NoncesStrictlyIncreasing ==
    \A a \in Addresses :
        (\A k \in 1..Len(issued[a]) : ~issued[a][k].nan) =>
            \A k \in 1..(Len(issued[a]) - 1) :
                issued[a][k + 1].nonce = issued[a][k].nonce + 1

\* C2: a call whose every attempt ended in a network error (exception or
\* non-zero error_code) records nothing but retries while it runs, and ends
\* after exactly MAX_RETRIES + 1 attempts with exactly one failure recorded.
C2_NetworkErrorRetryBound ==
    (allNet /\ attempts > 0) =>
        /\ attempts <= MAX_RETRIES + 1
        /\ Successes = 0
        /\ ~CallOver => Failures = 0
        /\ CallOver => /\ pc = "returned"
                       /\ attempts = MAX_RETRIES + 1
                       /\ Failures = 1
                       /\ ret = Undefined

C2_Witness ==
    /\ pc = "returned" /\ allNet /\ attempts = MAX_RETRIES + 1
    /\ Failures = 1 /\ Retries = MAX_RETRIES

\* C3: when a top-level jsonCall is over, the success records plus the
\* failure records of its whole retry chain number exactly one.
C3_ExactlyOneOutcome == CallOver => Successes + Failures = 1

\* C4: in somnia_rpc_perf.js, every attempt whose elapsed time is at least
\* 95% of the request timeout is classified as a timeout, for an exception
\* as for a response.
C4_LateAttemptIsTimeout ==
    (impl = "orig" /\ attempts > 0 /\ last.late) => out.tmo

\* C5: a call whose response arrives before the timeout threshold with
\* status 200, a JSON content type and a well-formed envelope holding one
\* acceptable result returns that result and records exactly one success.
C5_WellFormedResultSucceeds ==
    (attempts > 0 /\ last.cat = "Ok") =>
        /\ pc = "returned"
        /\ ret = last.result
        /\ Successes = 1 /\ Failures = 0

\* C6: a response that is an HttpError, a MalformedResponse, a
\* ProtocolError (other than for eth_estimateGas) or a ValidationError ends
\* the call at once: no retry is counted for it, and exactly one failure
\* with a stage tag is recorded.
C6_TerminalKindsNotRetried ==
    (attempts > 0 /\
     (\/ last.cat \in {"Http", "Malformed", "Validation"}
      \/ last.cat = "Protocol" /\ method # "eth_estimateGas")) =>
        /\ pc = "returned"
        /\ Retries = retryAttempt
        /\ Failures = 1 /\ Successes = 0
        /\ stage # "none"

\* C7: an eth_estimateGas call that receives, in less than 80% of the
\* timeout, a structurally valid envelope carrying a protocol error records
\* one success and no failure and returns the error payload.
C7_EstimateGasErrorIsSuccess ==
    (attempts > 0 /\ method = "eth_estimateGas" /\ last.cat = "Protocol" /\ ~last.slow) =>
        /\ pc = "returned"
        /\ Successes = 1 /\ Failures = 0
        /\ ret = ErrData(RevertCode)

----------------------------------------------------------------------------
(* Properties of wsSub (checked under SpecWs) *)

WsOver == ws.phase \in {"errored", "ended", "raised"}

\* C8: a connection that received no subscription event and was closed by
\* its idle timeout has recorded exactly one failure and exactly one timeout
\* and has left the active-connection gauge at its value before the call.
C8_IdleTimeoutRecordedOnce ==
    (ws.phase = "ended" /\ ws.timedOut /\ ~ws.gotEvent /\ ws.msgFails = 0) =>
        /\ errorCount - ws.connSnap.err = 1
        /\ timeoutCount - ws.connSnap.tcount = 1
        /\ activeConnections = ws.connSnap.gauge

\* C9: every connection decrements the gauge exactly once after its single
\* increment, so when a subscription is over the gauge has its initial value.
C9_GaugeBalanced == WsOver => activeConnections = wsSnap.gauge

\* C10: a subscription whose connections all ended in a transport error has
\* made exactly maxRetries + 1 connection attempts when it stops, and it
\* stops by returning from the error handler.
C10_ReconnectUntilExhausted ==
    (ws.phase \in {"errored", "raised"}) =>
        /\ ws.phase = "errored"
        /\ ws.conns = ws.maxRetries + 1

\* C11: the normal close caused by the first subscription event is reached
\* only from Subscribed: a connection that completed on an event had its
\* subscription confirmed before.
C11_EventOnlyWhenSubscribed == ws.gotEvent => ws.subscribed

\* C12: the close handler of a connection that its idle timeout closed
\* records a failure and never a success.
C12_TimeoutCloseIsFailure ==
    [][(ws.phase = "closing" /\ ws.timedOut /\ ws'.phase = "ended") =>
           /\ successCount' = successCount
           /\ errorCount' = errorCount + 1]_vars

----------------------------------------------------------------------------
(* Properties of nonce allocation (checked under SpecTx) *)

\* C13: once a nonce obtained from the network has been issued for an
\* address, no worker sends another eth_getTransactionCount query for that
\* address.
C13_BaselineFetchedOnce ==
    [][\A v \in VUs :
          (vu[v].pc = "idle" /\ vu'[v].pc = "gotNonce") =>
              \A k \in 1..Len(issued[Sender(scenario, v)]) :
                  issued[Sender(scenario, v)][k].nan]_vars

\* C14: no transaction is signed for an address with a nonce that comes from
\* a failed eth_getTransactionCount call.
C14_NoFabricatedNonce ==
    \A a \in Addresses : \A k \in 1..Len(issued[a]) : ~issued[a][k].nan

----------------------------------------------------------------------------
(* Properties of setup() (checked under SpecSetup) *)

\* the nonces base, base + 1, ... of the first n transactions, one per wallet
\* in wallet order
InOrderFrom(txs, base) ==
    \A k \in 1..Len(txs) : txs[k].nonce = base + k - 1 /\ txs[k].wallet = k - 1

\* C15: when the base nonce b was fetched, the funding transactions use the
\* nonces b, b+1, ... one per wallet in wallet order, the token-distribution
\* transactions use b+W, b+W+1, ..., and a finished setup has used exactly
\* b..b+W-1 and, for S12_SendRawTxERC20, b+W..b+2W-1.
C15_SetupNonceRanges ==
    (su.phase # "none" /\ ~su.nan) =>
        /\ InOrderFrom(su.fundTx, su.base0)
        /\ InOrderFrom(su.tokenTx, su.base0 + su.W)
        /\ Len(su.fundTx) <= su.W /\ Len(su.tokenTx) <= su.W
        /\ su.phase \in {"tokens", "done"} => Len(su.fundTx) = su.W
        /\ (su.phase = "done" /\ scenario = "S12_SendRawTxERC20") => Len(su.tokenTx) = su.W
        /\ su.phase = "funding" => su.tokenTx = << >>

C15_Witness ==
    /\ su.phase = "done" /\ ~su.nan /\ scenario = "S12_SendRawTxERC20"
    /\ su.W = MaxPool /\ su.B = 2 /\ su.base0 = MaxBase
    /\ Len(su.tokenTx) = su.W
    /\ su.funded # 0..(su.W - 1)

----------------------------------------------------------------------------
(* Properties of jsonCall, continued (checked under SpecRpc) *)

\* C16: jsonCall never raises to its caller, whatever the transport returns.
C16_JsonCallNeverRaises == pc # "raised"

\* C18: a parsed object that is not a valid envelope (no version tag, an id
\* of another request, or both result and error) is rejected at the
\* structure check: a failure with stage rpc_structure, nothing returned.
C18_OnlyExactEnvelopesAccepted ==
    (attempts > 0 /\ last.cat = "Malformed" /\ last.result # Undefined /\ ~last.slow) =>
        /\ out.kind = "fail" /\ out.stage = "rpc_structure"
        /\ ret = Undefined

----------------------------------------------------------------------------
(* Properties of the start-up of a run (checked under SpecRun) *)

\* the configuration the selected scenario requires is incomplete
MissingRequired(r) ==
    \/ r.scenario \in {"S11_SendRawTxSmall", "S12_SendRawTxERC20"} /\ (~r.key \/ ~r.addr)
    \/ r.scenario = "S12_SendRawTxERC20" /\ ~r.erc20
    \/ r.scenario = "S18_GetTxReceipt" /\ ~r.txHash

\* C17: no worker iteration begins while a value the selected scenario
\* requires is missing: such a run is aborted before the workers start.
C17_NoIterationWithMissingConfig ==
    run.phase = "iterating" => ~MissingRequired(run)

\* the logical operation category of an RPC method
OpCategory(m) ==
    CASE m \in {"eth_blockNumber", "eth_getTransactionCount", "eth_gasPrice"} -> "read"
      [] m = "eth_getBlockByNumber" -> "block-query"
      [] m = "eth_sendRawTransaction" -> "transaction-send"
      [] m = "eth_getTransactionReceipt" -> "receipt-fetch"

\* C21: the calls of one iteration, each of which records its own success or
\* failure, all belong to one operation category.
C21_OneCategoryPerIteration ==
    Cardinality({OpCategory(run.ops[k]) : k \in 1..Len(run.ops)}) <= 1

----------------------------------------------------------------------------
(* Properties of the assignment (checked under SpecAssign) *)

\* C22: the worker of the latest iteration uses endpoint (v-1) mod |endpoints|
\* and wallet (v-1) mod |wallets|, both inside their lists, and the same ones
\* as in its first iteration.
C22_AssignmentByWorkerIndex ==
    asg.v # 0 =>
        /\ asg.url = (asg.v - 1) % asg.urls
        /\ asg.wallet = (asg.v - 1) % asg.wallets
        /\ asg.url \in 0..(asg.urls - 1)
        /\ asg.wallet \in 0..(asg.wallets - 1)
        /\ asg.first[asg.v] = [url |-> asg.url, wallet |-> asg.wallet]

----------------------------------------------------------------------------
(* Properties of the request ids (checked under SpecIds) *)

\* C23: no two requests that are on the wire at the same time carry the same
\* id.
C23_InflightIdsDistinct ==
    \A v, w \in VUs :
        (v # w /\ inflight.id[v] # NoId /\ inflight.id[w] # NoId)
            => inflight.id[v] # inflight.id[w]

----------------------------------------------------------------------------
(* Properties of the counters (checked under SpecTally) *)

TotalAdds(t) == SumOver([v \in VUs |-> tally.adds[v][t]], VUs)

----------------------------------------------------------------------------
(* Properties of the failure log (checked under SpecLog) *)

\* C25: after any number of recordFailure calls the error counter has been
\* incremented once per call and one log record per call has been written,
\* each with scenario, method, endpoint and the reason cut to the limit.
C25_EveryFailureCountedAndLogged ==
    /\ failLog.errors = failLog.calls
    /\ Len(failLog.log) = failLog.calls
    /\ \A k \in 1..Len(failLog.log) :
          /\ failLog.log[k].scenario # "" /\ failLog.log[k].method # ""
          /\ failLog.log[k].endpoint # ""
          /\ Len(failLog.log[k].tags.reason) <= REASON_LIMIT

----------------------------------------------------------------------------
(* Properties of the two implementations (checked under SpecPair) *)

\* C26: fed the same responses, the jsonCall of lib/rpc-client.js and the
\* jsonCall of somnia_rpc_perf.js have made the same number of attempts, and
\* end with the same returned value and the same success and failure counts.
C26_LibBehavesAsOriginal ==
    /\ pair.lib.pc = pair.orig.pc
    /\ pair.lib.attempts = pair.orig.attempts
    /\ pair.lib.ret = pair.orig.ret
    /\ pair.lib.succ = pair.orig.succ
    /\ pair.lib.err = pair.orig.err

----------------------------------------------------------------------------
(* Properties of the signer (checked under SpecSign) *)

\* the fields and the key of the call are well formed
WellFormedCall ==
    /\ \A f \in {"nonce", "gas", "value"} : sg.tx[f] \in {"absent", "number"}
    /\ sg.tx.to \in {"absent", "string"}
    /\ sg.tx.data \in {"absent", "hex"}
    /\ sg.tx.chainId = "number"
    /\ sg.key = "hex32"

\* C27: a call of the signer returns (it does not panic) with exactly one of
\* a raw transaction and an error: the raw transaction, signed over the
\* fields as given, when fields and key are well formed, the error otherwise.
C27_SignerReturnsRawOrError ==
    sg.calls > 0 =>
        /\ sg.res.end = "return"
        /\ (sg.res.raw # "") # sg.res.err
        /\ WellFormedCall => (sg.res.raw = "0x" /\ sg.res.input \in {"data", "empty"})
        /\ ~WellFormedCall => sg.res.err

----------------------------------------------------------------------------
(* Order of the steps of a sending iteration (checked under SpecTx) *)

SignedCount == SumOver([a \in Addresses |-> Len(issued[a])], Addresses)

\* C28: a worker's iteration moves only from the nonce fetch to signing and
\* from a completed signing to the submission; it holds a raw transaction
\* exactly when it is about to submit, and an iteration whose signing failed
\* ends without a transaction signed or handed to the node.
C28_FetchThenSignThenSubmit ==
    [][\A v \in VUs :
          /\ vu'[v].pc = "signed" <=> vu'[v].raw
          /\ vu[v].pc # vu'[v].pc =>
                \/ vu[v].pc = "idle" /\ vu'[v].pc = "gotNonce"
                \/ vu[v].pc = "gotNonce" /\ vu'[v].pc = "signed"
                \/ vu[v].pc = "signed" /\ vu'[v].pc = "idle" /\ vu[v].raw
                \/ /\ vu[v].pc = "gotNonce" /\ vu'[v].pc = "idle"
                   /\ chainNonce' = chainNonce /\ issued' = issued]_vars

\* C28 witness: an iteration has ended at a failed signing (it is counted,
\* and nothing it signed exists) while another worker has signed and is about
\* to submit
C28_Witness ==
    /\ txDone = 1 /\ SignedCount = 1
    /\ \E v \in VUs : vu[v].pc = "signed" /\ vu[v].raw

----------------------------------------------------------------------------
(* Properties of the retries of jsonCall (checked under SpecRpc) *)

\* C29: a call that has made n attempts and is over, or is waiting for the
\* answer to its n-th attempt, has added n-1 times to the retry counter, the
\* i-th add tagged retry_attempt i-1, and has slept once between consecutive
\* attempts; with one attempt the retry counter is unchanged.
C29_RetriesCountedAndTagged ==
    (attempts > 0 /\ (CallOver \/ pc = "sleeping")) =>
        LET k == IF CallOver THEN attempts - 1 ELSE attempts IN
        /\ Retries = k
        /\ Len(retryLog.tags) = k
        /\ \A i \in 1..k : retryLog.tags[i] = i - 1
        /\ retryLog.sleeps = attempts - 1

\* C29 witness: a call ended at its fourth attempt after three retries
C29_Witness ==
    /\ CallOver /\ attempts = MAX_RETRIES + 1
    /\ retryLog.tags = <<0, 1, 2>> /\ retryLog.sleeps = MAX_RETRIES

----------------------------------------------------------------------------
(* Properties of the value jsonCall returns (checked under SpecRpc) *)

NonEmptyValue(v) == v # Undefined /\ v # JNull /\ v # JStr(<< >>)

\* C30: when jsonCall of somnia_rpc_perf.js has returned, the returned value
\* is non-empty exactly when the call recorded a success, and empty exactly
\* when it recorded a failure.
C30_ValueIffSuccess ==
    (pc = "returned" /\ impl = "orig") =>
        /\ NonEmptyValue(ret) <=> Successes = 1
        /\ ~NonEmptyValue(ret) <=> Failures = 1

----------------------------------------------------------------------------
(* Properties of the two gauges (checked under SpecRpc).  gauges.snap holds *)
(* both gauges and their add counts as they were when the call started.    *)

\* the call returned a result and recorded it as a success of the method
ObservedSuccess(m) ==
    pc = "returned" /\ method = m /\ Successes = 1 /\ out.kind = "ok" /\ out.stage = "none"

BlockAdds == gauges.blockAdds - gauges.snap.blockAdds
GasAdds == gauges.gasAdds - gauges.snap.gasAdds

----------------------------------------------------------------------------
(* Bound on the attempts of one jsonCall (checked under SpecRpc) *)

\* C32: whatever the attempts of a call ran into, the call has made at most
\* MAX_RETRIES + 1 attempts and at most MAX_RETRIES retries, its recursion
\* level is the number of retries made, and a call at the last level ends
\* with its next answer instead of retrying.
C32_SharedRetryBudget ==
    /\ attempts <= MAX_RETRIES + 1
    /\ Retries <= MAX_RETRIES
    /\ retryAttempt <= MAX_RETRIES
    /\ pc \in {"posting", "returned", "raised"} => Retries = retryAttempt
    /\ pc = "sleeping" => Retries = retryAttempt + 1 /\ retryAttempt < MAX_RETRIES
    /\ attempts = MAX_RETRIES + 1 => CallOver

\* C32 witness: a call used up its budget on a mix of kinds: its last
\* attempt was a transport failure and an earlier one was an HTTP response
\* detected as a timeout
C32_Witness ==
    /\ pc = "returned" /\ attempts = MAX_RETRIES + 1 /\ Retries = MAX_RETRIES
    /\ Failures = 1 /\ last.net /\ ~allNet

----------------------------------------------------------------------------
(* Order of the validation stages (checked under SpecRpc) *)

\* the checks of the stages on the latest response, in the order claimed;
\* lib/rpc-client.js has no timeout detection
StagePassed(k) ==
    CASE k = 1 -> ~(impl = "orig" /\ DetectTimeout(lastResp.error_code, lastResp.status, lastResp.body.tw,
                                                   lastResp.elapsed, PARSED_TIMEOUT_MS) # {})
      [] k = 2 -> lastResp.error_code = 0
      [] k = 3 -> IF impl = "orig" THEN HttpOkOrig(lastResp) ELSE HttpOkLib(lastResp)
      [] k = 4 -> lastResp.body.kind # "text"
      [] k = 5 -> StructureOk(lastResp.body)
      [] k = 6 -> ~lastResp.body.hasError
      [] k = 7 -> ResultOk(expectFn, lastResp.body)

StageTags ==
    <<"none", "network", "http", "json_parse", "rpc_structure", "rpc_error", "result_validation">>

\* C33: a call that returned after recording a failure on a response carries
\* the stage of the first check, in the fixed order, that the response does
\* not pass; and the validator has been invoked at most once in the call,
\* and only on a response that passed every stage before result validation.
C33_FirstFailingStageRecorded ==
    /\ (pc = "returned" /\ out.kind = "fail" /\ ~lastResp.threw) =>
          \E k \in 1..7 :
              /\ ~StagePassed(k)
              /\ \A j \in 1..(k - 1) : StagePassed(j)
              /\ stage = StageTags[k]
    /\ validatorCalls <= 1
    /\ validatorCalls = 1 => (~lastResp.threw /\ \A j \in 1..6 : StagePassed(j))

\* C33 witness: a response that passes neither the protocol-error stage nor
\* result validation was recorded at stage rpc_error, the validator not invoked
C33_Witness ==
    /\ pc = "returned" /\ out.kind = "fail" /\ stage = "rpc_error"
    /\ ~StagePassed(7) /\ validatorCalls = 0

----------------------------------------------------------------------------
(* Subscriptions ended by their first event (checked under SpecWs) *)

\* C34: in somnia_rpc_perf.js a connection that got its subscription event
\* before the timeout callback fired, with no message failure and no
\* transport error before it, has ended with the normal close code and
\* without any failure or timeout record since it was opened.
C34_EventBeforeTimeoutIsSuccess ==
    (ws.impl = "orig" /\ ws.phase = "ended" /\ ws.gotEvent /\ ~ws.timedOut
     /\ ws.msgFails = 0 /\ ws.errors = 0) =>
        /\ ws.code = CLOSE_NORMAL
        /\ errorCount = ws.connSnap.err
        /\ timeoutCount = ws.connSnap.tcount
        /\ timeoutRateAdds = ws.connSnap.trate

----------------------------------------------------------------------------
(* The caller's maxRetries (checked under SpecWs) *)

\* C35: when the caller passed maxRetries = n, the wsSub call has opened at
\* most n + 1 connections, that is, has reconnected at most n times; with
\* n = 0 a failed connection is never reconnected.
C35_MaxRetriesHonoured ==
    (ws.optPresent /\ ws.conns > 0) => ws.conns - 1 <= ws.opt

----------------------------------------------------------------------------
(* Properties of the run lock (checked under SpecLock) *)

\* C36: from the moment one instance of the orchestrator has made the lock
\* directory until that instance's own cleanup, no other instance holds the
\* lock: at most one instance is between its mkdir and its cleanup.
C36_LockMutualExclusion == Cardinality(Holders) <= 1

----------------------------------------------------------------------------
(* Properties of the S7_GetLogsSmall cursor (checked under SpecLogs) *)

\* C37: in S7_GetLogsSmall the ranges queried by successive iterations of one
\* worker are contiguous: when two iterations in a row have queried, the
\* later fromBlock equals the earlier toBlock plus 1, and the cursor has not
\* decreased; the latest block number is fetched at most until it is set.
C37_RangesContiguous ==
    (logs.q.made /\ logs.prev.made) =>
        /\ NumEq(logs.q.from, Plus(logs.prev.to, Num(1)))
        /\ NumGe(logs.q.after, logs.q.before)
        /\ NumGe(logs.q.to, logs.q.from)

----------------------------------------------------------------------------
(* Properties of teardown (checked under SpecTeardown) *)

TeardownOver == td.phase = "done"

Pool == 0..(td.n - 1)

----------------------------------------------------------------------------
(* Properties of S19_BatchCalls (checked under SpecBatch) *)

\* the response is status 200, parses to an array of exactly batchSize items
\* and at least 80% of the items are valid
BatchGood ==
    /\ ~bc.r.threw /\ bc.r.status = 200 /\ bc.r.body = "array" /\ bc.r.len = bc.size
    /\ 100 * bc.r.valid >= SUCCESS_THRESHOLD_PCT * bc.size

\* C39: every iteration of S19_BatchCalls records exactly one outcome, a
\* success if and only if the response is status 200, parses to an array of
\* exactly batchSize items and at least 80% of the items are valid, and a
\* failure otherwise.
C39_ExactlyOneOutcome ==
    bc.iters > 0 =>
        /\ bc.out.succ + bc.out.fail = 1
        /\ bc.out.succ = 1 <=> BatchGood

============================================================================
